---- MODULE Spec2Model ----
(***************************************************************************)
(* Capital-pool ledger (app/ledger.py, app/models.py, app/main.py) and     *)
(* payment orchestration (app/services/payments.py, app/services/ledger.py)*)
(* of the dental-claims underwriting back end.  Amounts are integer cents. *)
(***************************************************************************)
EXTENDS Integers, Sequences, FiniteSets, TLC

\* ------------------------------------------------------------------ bounds
\* Largest funded_amount / settlement_amount a caller passes.
MaxAmount == 3
\* Settlement days a caller passes: one before the submission day, one after it.
MaxDay == 2
SubmissionDay == 1
Days == {0, MaxDay}
\* total_capital of the two pools created with init_pool.
Pool1Capital == 5
Pool2Capital == 1
\* max_exposure_limit of the two practices created with create_practice.
Practice1Limit == 3
Practice2Limit == 2

PoolIds == {"POOL", "POOL2"}
PracticeIds == {"PR1", "PR2"}
ClaimIds == {"CLM1", "CLM2", "CLM3"}

Max(a, b) == IF a >= b THEN a ELSE b
Min(a, b) == IF a <= b THEN a ELSE b

VARIABLES
  pools,      \* CapitalPool table: pool id -> row
  practices,  \* Practice table: practice id -> row
  claims,     \* Claim table: claim id -> row
  last,       \* the last call made and how it ended
  claims_v2,         \* Claim table of the payment system: claim id -> row
  payment_intents,   \* PaymentIntent rows
  ledger_entries,    \* LedgerEntry rows
  ledger_accounts,   \* LedgerAccount rows
  provider_payments, \* SimulatedProvider._payments
  plast,             \* the last payment call made and how it ended
  sessions           \* the requests under way step by step: process -> its session

vars == <<pools, practices, claims, last,
          claims_v2, payment_intents, ledger_entries, ledger_accounts, provider_payments, plast,
          sessions>>

\* -------------------------------------------------- app/models.py (legacy)
ClaimStatus == {"submitted", "underwriting", "funded", "settled", "reimbursed", "exception"}

\* The dict, entry by entry.
CLAIM_STATUS_TRANSITIONS ==
  ("submitted" :> {"underwriting", "exception"})
    @@ ("underwriting" :> {"funded", "exception"})
    @@ ("funded" :> {"reimbursed", "exception", "settled"})
    @@ ("settled" :> {})
    @@ ("reimbursed" :> {})
    @@ ("exception" :> {})

TERMINAL_STATUSES == {"settled", "reimbursed", "exception"}

\* Mutant: every transition is let through.
validate_status_transition_any(current_status, target_status) == "ok"

\* Mutant: a transition to the status the claim already has is let through.
validate_status_transition_same_ok(current_status, target_status) ==
  IF current_status \in TERMINAL_STATUSES THEN "terminal"
  ELSE IF target_status # current_status /\ target_status \notin CLAIM_STATUS_TRANSITIONS[current_status]
    THEN "not_allowed"
  ELSE "ok"

\* "ok", or the reason validate_status_transition raises InvalidStatusTransitionError.
validate_status_transition(current_status, target_status) ==
  IF current_status = target_status THEN "already"
  ELSE IF current_status \in TERMINAL_STATUSES THEN "terminal"
  ELSE IF target_status \notin CLAIM_STATUS_TRANSITIONS[current_status] THEN "not_allowed"
  ELSE "ok"

\* ------------------------------------------------------- app/ledger.py
NoError == [kind |-> "ok", msg |-> ""]
Error(kind, msg) == [kind |-> kind, msg |-> msg]

\* class InvariantViolationError(LedgerError): an `except LedgerError` handler
\* catches both.
IsLedgerError(kind) == kind \in {"LedgerError", "InvariantViolationError"}

\* Mutant: the balance equation is not checked.
check_pool_invariants_no_balance(pool) ==
  IF ~(pool.available_capital >= 0) THEN Error("AssertionError", "Available capital cannot be negative")
  ELSE IF ~(pool.capital_allocated >= 0) THEN Error("AssertionError", "Allocated capital cannot be negative")
  ELSE IF ~(pool.capital_pending_settlement >= 0) THEN Error("AssertionError", "Pending settlement cannot be negative")
  ELSE IF ~(pool.capital_returned >= 0) THEN Error("AssertionError", "Returned capital cannot be negative")
  ELSE IF pool.capital_pending_settlement > pool.capital_allocated
    THEN Error("InvariantViolationError", "Capital pool invariant violated: pending_settlement")
  ELSE NoError

check_pool_invariants(pool) ==
  IF ~(pool.available_capital >= 0) THEN Error("AssertionError", "Available capital cannot be negative")
  ELSE IF ~(pool.capital_allocated >= 0) THEN Error("AssertionError", "Allocated capital cannot be negative")
  ELSE IF ~(pool.capital_pending_settlement >= 0) THEN Error("AssertionError", "Pending settlement cannot be negative")
  ELSE IF ~(pool.capital_returned >= 0) THEN Error("AssertionError", "Returned capital cannot be negative")
  ELSE IF pool.available_capital # pool.total_capital - pool.capital_allocated + pool.capital_returned
    THEN Error("InvariantViolationError", "Capital pool invariant violated: available_capital")
  ELSE IF pool.capital_pending_settlement > pool.capital_allocated
    THEN Error("InvariantViolationError", "Capital pool invariant violated: pending_settlement")
  ELSE NoError

check_practice_invariants(practice) ==
  IF ~(practice.current_exposure >= 0) THEN Error("AssertionError", "Practice exposure cannot be negative")
  ELSE IF ~(practice.max_exposure_limit >= 0) THEN Error("AssertionError", "Max exposure limit cannot be negative")
  ELSE IF practice.current_exposure > practice.max_exposure_limit
    THEN Error("InvariantViolationError", "Practice invariant violated")
  ELSE NoError

check_claim_invariants(claim) ==
  IF ~(claim.billed_amount >= 0) THEN Error("AssertionError", "Billed amount cannot be negative")
  ELSE IF ~(claim.expected_allowed_amount >= 0) THEN Error("AssertionError", "Expected allowed amount cannot be negative")
  ELSE IF ~(claim.funded_amount >= 0) THEN Error("AssertionError", "Funded amount cannot be negative")
  ELSE IF claim.status = "funded" /\ claim.funded_amount = 0
    THEN Error("InvariantViolationError", "Claim invariant violated: funded but funded_amount is 0")
  ELSE IF claim.status = "submitted" /\ claim.funded_amount > 0
    THEN Error("InvariantViolationError", "Claim invariant violated: submitted but has funded_amount")
  ELSE NoError

\* Mutant: the exposure already taken is not subtracted.
get_remaining_ignores_exposure(practice) == Max(0, practice.max_exposure_limit)

get_remaining_practice_exposure_limit(practice) ==
  Max(0, practice.max_exposure_limit - practice.current_exposure)

\* The three checks made at the start of fund and settle, in the code's order.
FirstError(e1, e2, e3) ==
  IF e1.kind # "ok" THEN e1 ELSE IF e2.kind # "ok" THEN e2 ELSE e3

\* The database a session sees: the three tables.
Db(pl, pr, cl) == [pools |-> pl, practices |-> pr, claims |-> cl]

\* What a call leaves behind: how it ended and the session's (uncommitted) rows.
Returned(db) == [outcome |-> "ok", msg |-> "", db |-> db]
Raised(err, db) == [outcome |-> err.kind, msg |-> err.msg, db |-> db]

\* Mutant: a prior decline reason is kept.
FundedClaim_keeps_decline(claim, funded_amount) ==
  [claim EXCEPT !.funded_amount = funded_amount, !.status = "funded"]

\* The claim row as fund_claim_atomic writes it.
FundedClaim(claim, funded_amount) ==
  [claim EXCEPT !.funded_amount = funded_amount,
                !.status = "funded",
                !.decline_reason_code = "None"]

\* Mutant: the claim is marked funded with no check of the amount, before or after.
fund_claim_atomic_unchecked(db, pool_id, claim_id, funded_amount) ==
  Returned([db EXCEPT !.claims[claim_id] = FundedClaim(@, funded_amount)])

fund_claim_atomic(db, pool_id, claim_id, funded_amount) ==
  LET pool == db.pools[pool_id]
      claim == db.claims[claim_id]
      practice == db.practices[claim.practice_id]
      pre == FirstError(check_pool_invariants(pool), check_practice_invariants(practice),
                        check_claim_invariants(claim))
      tr == validate_status_transition(claim.status, "funded")
      remaining == get_remaining_practice_exposure_limit(practice)
      pool2 == [pool EXCEPT !.available_capital = @ - funded_amount,
                            !.capital_allocated = @ + funded_amount,
                            !.capital_pending_settlement = @ + funded_amount]
      practice2 == [practice EXCEPT !.current_exposure = @ + funded_amount]
      claim2 == FundedClaim(claim, funded_amount)
      db2 == Db([db.pools EXCEPT ![pool_id] = pool2],
                [db.practices EXCEPT ![claim.practice_id] = practice2],
                [db.claims EXCEPT ![claim_id] = claim2])
      post == FirstError(check_pool_invariants(pool2), check_practice_invariants(practice2),
                         check_claim_invariants(claim2))
  IN IF ~(funded_amount > 0) THEN Raised(Error("AssertionError", "Funded amount must be positive"), db)
     ELSE IF pre.kind # "ok" THEN Raised(pre, db)
     ELSE IF tr # "ok" THEN Raised(Error("LedgerError", "Invalid status transition"), db)
     ELSE IF funded_amount > remaining
       THEN Raised(Error("LedgerError", "Insufficient remaining practice exposure limit"), db)
     ELSE IF funded_amount > pool.available_capital
       THEN Raised(Error("LedgerError", "Insufficient pool available capital"), db)
     ELSE IF post.kind # "ok" THEN Raised(post, db2)
     ELSE Returned(db2)

settle_claim_atomic(db, pool_id, claim_id, settlement_date, settlement_amount) ==
  LET pool == db.pools[pool_id]
      claim == db.claims[claim_id]
      practice == db.practices[claim.practice_id]
      pre == FirstError(check_pool_invariants(pool), check_practice_invariants(practice),
                        check_claim_invariants(claim))
      target_status == IF settlement_amount < claim.funded_amount THEN "exception" ELSE "reimbursed"
      tr == validate_status_transition(claim.status, target_status)
      principal == claim.funded_amount
      days_outstanding == Max(0, settlement_date - claim.submission_date)
      returned_principal == Min(principal, settlement_amount)
      pool2 == [pool EXCEPT !.total_days_outstanding = @ + days_outstanding,
                            !.num_settled_claims = @ + 1,
                            !.capital_pending_settlement = @ - principal,
                            !.capital_allocated = @ - principal,
                            !.available_capital = @ + returned_principal,
                            !.capital_returned = @ + returned_principal]
      practice2 == [practice EXCEPT !.current_exposure = @ - principal]
      claim2 == [claim EXCEPT !.status = IF settlement_amount < principal THEN "exception"
                                         ELSE "reimbursed"]
      db2 == Db([db.pools EXCEPT ![pool_id] = pool2],
                [db.practices EXCEPT ![claim.practice_id] = practice2],
                [db.claims EXCEPT ![claim_id] = claim2])
      post == FirstError(check_pool_invariants(pool2), check_practice_invariants(practice2), NoError)
  IN IF ~(settlement_amount >= 0) THEN Raised(Error("AssertionError", "Settlement amount cannot be negative"), db)
     ELSE IF pre.kind # "ok" THEN Raised(pre, db)
     ELSE IF tr # "ok" THEN Raised(Error("LedgerError", "Invalid status transition"), db)
     ELSE IF ~(principal > 0) THEN Raised(Error("AssertionError", "Cannot settle claim with zero funded amount"), db)
     ELSE IF principal > pool.capital_pending_settlement
       THEN Raised(Error("InvariantViolationError", "Pool pending settlement invariant violated"), db)
     ELSE IF practice2.current_exposure < 0
       THEN Raised(Error("InvariantViolationError", "Practice exposure invariant violated"), db2)
     ELSE IF post.kind # "ok" THEN Raised(post, db2)
     ELSE Returned(db2)

\* ---------------------------------------------------------- app/db.py
\* Mutant: the session is committed also when the body raised.
session_scope_no_rollback(db, result) == result.db

\* session_scope: commit when the body returns, roll back when it raises.
session_scope(db, result) == IF result.outcome = "ok" THEN result.db ELSE db

\* ------------------------------------------------- app/underwriting.py
\* Strings are kept whole; strip() and lower() are tabulated on the strings the
\* model uses, and `kw in s` on the keywords and payers it uses.
strip(s) ==
  CASE s = " Aetna "  -> "Aetna"
    [] s = " D0120"   -> "D0120"
    [] OTHER          -> s

lower(s) ==
  CASE s = "Aetna"      -> "aetna"
    [] s = "Aetna HMO"  -> "aetna hmo"
    [] s = "Medicaid"   -> "medicaid"
    [] s = "BCBS"       -> "bcbs"
    [] OTHER            -> s

\* kw in s (substring), for lower-cased s.
contains(s, kw) ==
  \/ s = kw
  \/ s = "aetna hmo" /\ kw = "hmo"

\* _default_policy() of app/main.py; rates in percent.
ALLOWED_CDT_CODES_V1 ==
  {"D0120", "D0150", "D0274", "D0220", "D0230", "D1110", "D1120", "D2391", "D2392", "D2750"}

APPROVED_PAYERS_V1 == {"Aetna", "UnitedHealthcare", "BCBS", "Cigna", "Delta Dental"}

PROCEDURE_PAY_RATES_V1 ==
  [c \in ALLOWED_CDT_CODES_V1 |->
     CASE c = "D0120" -> 96 [] c = "D0150" -> 94 [] c = "D0274" -> 93 [] c = "D0220" -> 92
       [] c = "D0230" -> 91 [] c = "D1110" -> 96 [] c = "D1120" -> 95 [] c = "D2391" -> 92
       [] c = "D2392" -> 91 [] OTHER -> 88]

default_policy ==
  [approved_payers |-> APPROVED_PAYERS_V1,
   excluded_plan_keywords |-> {"medicaid", "capitation", "carve-out", "hmo"},
   allowed_procedures |-> ALLOWED_CDT_CODES_V1,
   procedure_pay_rate_threshold |-> 90,
   min_practice_tenure_months |-> 12,
   min_practice_clean_claim_rate |-> 90,
   procedure_historical_pay_rate |-> PROCEDURE_PAY_RATES_V1]

Declined(reason_code) == [approved |-> FALSE, funded_amount |-> 0, reason_code |-> reason_code]

\* The loop over claim.procedure_code.split(";"): each code is checked against the
\* allowed set and then against its pay rate before the next code is looked at.
\* procedure_codes is the sequence of the ";"-separated segments.
RECURSIVE procedure_check(_, _, _)
procedure_check(procedure_codes, policy, i) ==
  IF i > Len(procedure_codes) THEN "ok"
  ELSE LET code == strip(procedure_codes[i])
       IN IF code \notin policy.allowed_procedures THEN "PROCEDURE_NOT_ALLOWED"
          ELSE IF code \notin DOMAIN policy.procedure_historical_pay_rate
                  \/ policy.procedure_historical_pay_rate[code] < policy.procedure_pay_rate_threshold
            THEN "PROCEDURE_PAY_RATE_BELOW_THRESHOLD"
          ELSE procedure_check(procedure_codes, policy, i + 1)

underwrite_claim(claim, practice, policy, remaining_practice_exposure_limit, pool_available_capital) ==
  LET payer_normalized == strip(claim.payer)
      payer_lower == lower(payer_normalized)
      proc == procedure_check(claim.procedure_code, policy, 1)
  IN IF payer_normalized \notin policy.approved_payers THEN Declined("PAYER_NOT_APPROVED")
     ELSE IF \E kw \in policy.excluded_plan_keywords : contains(payer_lower, lower(kw))
       THEN Declined("PAYER_PLAN_NOT_SUPPORTED")
     ELSE IF proc # "ok" THEN Declined(proc)
     ELSE IF practice.tenure_months < policy.min_practice_tenure_months
       THEN Declined("PRACTICE_TENURE_TOO_LOW")
     ELSE IF practice.historical_clean_claim_rate < policy.min_practice_clean_claim_rate
       THEN Declined("PRACTICE_HISTORY_INSUFFICIENT")
     ELSE IF claim.expected_allowed_amount > remaining_practice_exposure_limit
       THEN Declined("EXCEEDS_PRACTICE_EXPOSURE_LIMIT")
     ELSE IF claim.expected_allowed_amount > pool_available_capital
       THEN Declined("INSUFFICIENT_POOL_LIQUIDITY")
     ELSE [approved |-> TRUE, funded_amount |-> claim.expected_allowed_amount, reason_code |-> "None"]

\* ------------------------------------------------------------- the calls
\* How a request ended: the exception that ended the body (or "ok"), the HTTP
\* status of the response (0 for a direct call), and the exceptions a handler
\* inside the body caught and did not re-raise.
Called(op, cid, result, http, swallowed) ==
  [op |-> op, cid |-> cid, outcome |-> result.outcome, msg |-> result.msg,
   http |-> http, swallowed |-> swallowed]

CurrentDb == Db(pools, practices, claims)

Commit(db) ==
  /\ pools' = db.pools
  /\ practices' = db.practices
  /\ claims' = db.claims
  /\ UNCHANGED <<claims_v2, payment_intents, ledger_entries, ledger_accounts, provider_payments, plast>>
  /\ UNCHANGED sessions

\* fund_claim_atomic called in a session_scope of its own (as simulate.py does).
FundCall(cid, pid, f) ==
  LET r == fund_claim_atomic(CurrentDb, pid, cid, f)
  IN /\ Commit(session_scope(CurrentDb, r))
     /\ last' = Called("fund", cid, r, 0, {})

\* settle_claim_atomic called in a session_scope of its own (as simulate.py does).
SettleCall(cid, pid, day, a) ==
  LET r == settle_claim_atomic(CurrentDb, pid, cid, day, a)
  IN /\ Commit(session_scope(CurrentDb, r))
     /\ last' = Called("settle", cid, r, 0, {})

\* The response status of an endpoint whose body catches LedgerError and raises
\* HTTPException(400): any other exception leaves the endpoint as a 500.
HttpStatus(outcome) ==
  IF outcome = "ok" THEN 200
  ELSE IF outcome = "HTTPException" \/ IsLedgerError(outcome) THEN 400
  ELSE 500

\* POST /claims/{claim_id}/underwrite
underwrite(db, claim_id, pool_id) ==
  LET claim == db.claims[claim_id]
      practice == db.practices[claim.practice_id]
      pool == db.pools[pool_id]
      tr == validate_status_transition(claim.status, "underwriting")
      remaining == practice.max_exposure_limit - practice.current_exposure
      decision == underwrite_claim(claim, practice, default_policy, Max(0, remaining),
                                   pool.available_capital)
      claim2 == IF ~decision.approved
                  THEN [claim EXCEPT !.decline_reason_code = decision.reason_code,
                                     !.status = "exception"]
                  ELSE [claim EXCEPT !.status = "underwriting"]
  IN IF tr # "ok" THEN Raised(Error("HTTPException", "Invalid status transition"), db)
     ELSE Returned([db EXCEPT !.claims[claim_id] = claim2])

Underwrite(cid, pid) ==
  LET r == underwrite(CurrentDb, cid, pid)
  IN /\ Commit(session_scope(CurrentDb, r))
     /\ last' = Called("underwrite", cid, r, HttpStatus(r.outcome), {})

\* POST /claims/{claim_id}/fund
fund(db, claim_id, pool_id) ==
  LET claim == db.claims[claim_id]
      practice == db.practices[claim.practice_id]
      pool == db.pools[pool_id]
      remaining == Max(0, practice.max_exposure_limit - practice.current_exposure)
      decision == underwrite_claim(claim, practice, default_policy, remaining,
                                   pool.available_capital)
      declined == [db EXCEPT !.claims[claim_id].decline_reason_code = decision.reason_code]
  IN IF ~decision.approved THEN Raised(Error("HTTPException", decision.reason_code), declined)
     ELSE fund_claim_atomic(db, pool_id, claim_id, decision.funded_amount)

FundEndpoint(cid, pid) ==
  LET r == fund(CurrentDb, cid, pid)
  IN /\ Commit(session_scope(CurrentDb, r))
     /\ last' = Called("fund_endpoint", cid, r, HttpStatus(r.outcome), {})

\* POST /claims/{claim_id}/settle
settle(db, claim_id, pool_id, settlement_date, settlement_amount) ==
  settle_claim_atomic(db, pool_id, claim_id, settlement_date, settlement_amount)

SettleEndpoint(cid, pid, day, a) ==
  LET r == settle(CurrentDb, cid, pid, day, a)
  IN /\ Commit(session_scope(CurrentDb, r))
     /\ last' = Called("settle_endpoint", cid, r, HttpStatus(r.outcome), {})

\* POST /simulate with advance_one_step: one pass over the claims, in the order the
\* query returns them, inside one session_scope.  acc is the result so far with
\* the exceptions the `except Exception` around fund_claim_atomic caught.
RECURSIVE simulate(_, _, _, _, _)
simulate(acc, pool_id, order, today, i) ==
  IF i > Len(order) \/ acc.outcome # "ok" THEN acc
  ELSE LET db == acc.db
           cid == order[i]
           claim == db.claims[cid]
           funded == fund_claim_atomic(db, pool_id, cid, claim.expected_allowed_amount)
           settled == settle_claim_atomic(db, pool_id, cid, today, claim.funded_amount)
           step ==
             CASE claim.status = "submitted" ->
                    [acc EXCEPT !.db.claims[cid].status = "underwriting"]
               [] claim.status = "underwriting" ->
                    IF funded.outcome = "ok" THEN [acc EXCEPT !.db = funded.db]
                    ELSE [acc EXCEPT !.db = [funded.db EXCEPT !.claims[cid].status = "exception"],
                                     !.swallowed = @ \cup {funded.outcome}]
               [] claim.status = "funded" ->
                    [acc EXCEPT !.outcome = settled.outcome, !.msg = settled.msg, !.db = settled.db]
               [] OTHER -> acc
       IN simulate(step, pool_id, order, today, i + 1)

Orders == {o \in [1..Cardinality(ClaimIds) -> ClaimIds] : \A c \in ClaimIds : \E i \in DOMAIN o : o[i] = c}

Simulate(pid, order, today) ==
  LET start == [outcome |-> "ok", msg |-> "", db |-> CurrentDb, swallowed |-> {}]
      r == simulate(start, pid, order, today, 1)
  IN /\ Commit(session_scope(CurrentDb, r))
     /\ last' = Called("simulate", "", r, HttpStatus(r.outcome), r.swallowed)

\* simulate.py main(): underwrite, then fund when approved, else record the decline
\* reason; one session_scope.
simulate_main(db, claim_id, pool_id) ==
  LET claim == db.claims[claim_id]
      practice == db.practices[claim.practice_id]
      pool == db.pools[pool_id]
      remaining == Max(0, practice.max_exposure_limit - practice.current_exposure)
      decision == underwrite_claim(claim, practice, default_policy, remaining,
                                   pool.available_capital)
  IN IF decision.approved
       THEN fund_claim_atomic(db, pool_id, claim_id, decision.funded_amount)
       ELSE Returned([db EXCEPT !.claims[claim_id].decline_reason_code = decision.reason_code])

SimulateMain(cid, pid) ==
  LET r == simulate_main(CurrentDb, cid, pid)
  IN /\ Commit(session_scope(CurrentDb, r))
     /\ last' = Called("simulate_main", cid, r, 0, {})

\* ======================================================== payments and ledger
\* src/app/services/ledger.py, src/app/services/payments.py,
\* src/app/providers/simulated.py, src/app/routers/payments.py

\* Bounds of the payment model.
MaxUuid == 3
SeededCapital == 2
MaxSeedAmount == 1
Claim1Amount == 1
Claim2Amount == 2

PayClaimIds == {1, 2}
Uuids == 1..MaxUuid

\* simulated.py FAILURE_CODES; the failures the model lets the provider draw.
FAILURE_CODES ==
  {"INSUFFICIENT_FUNDS", "ACCOUNT_CLOSED", "INVALID_ACCOUNT", "NETWORK_ERROR", "COMPLIANCE_HOLD"}
DrawnFailures == {"NETWORK_ERROR"}

\* The message simulated.py pairs with each failure code.
FailureMessage(failure_code) ==
  CASE failure_code = "INSUFFICIENT_FUNDS" -> "Recipient account has insufficient funds"
    [] failure_code = "ACCOUNT_CLOSED" -> "Recipient account is closed"
    [] failure_code = "INVALID_ACCOUNT" -> "Invalid recipient account number"
    [] failure_code = "NETWORK_ERROR" -> "Network timeout during payment processing"
    [] failure_code = "COMPLIANCE_HOLD" -> "Payment held for compliance review"
    [] OTHER -> "None"

\* The messages a caller of fail_payment gives.
GivenMessages == {"manual failure"}
Draws == {"SUCCESS"} \cup DrawnFailures

PaymentIntentStatus == {"QUEUED", "SENT", "CONFIRMED", "FAILED"}

PAYMENT_INTENT_TRANSITIONS ==
  [s \in PaymentIntentStatus |->
     CASE s = "QUEUED" -> {"SENT", "FAILED"}
       [] s = "SENT" -> {"CONFIRMED", "FAILED"}
       [] OTHER -> {}]

TERMINAL_PAYMENT_STATUSES == {"CONFIRMED", "FAILED"}

\* PaymentIntent.generate_idempotency_key: f"claim:{claim_id}:payment:v1"
generate_idempotency_key(claim_id) == <<"claim", claim_id, "payment", "v1">>

\* The exception classes of services/ledger.py and services/payments.py.
IsServiceLedgerError(kind) == kind \in {"LedgerError", "InsufficientFundsError", "DuplicateEntryError"}
IsPaymentError(kind) == kind \in {"PaymentError", "PaymentAlreadyExistsError", "InvalidClaimStateError"}

\* F applied to the value of v, which is computed once.
Let1(v, F(_)) == CHOOSE y \in {F(x) : x \in {v}} : TRUE

\* The tables one session sees.
PDb(cl, pi, le, la) == [claims |-> cl, intents |-> pi, entries |-> le, accounts |-> la]

POk(db, ret) == [outcome |-> "ok", db |-> db, ret |-> ret]
PRaise(kind, db) == [outcome |-> kind, db |-> db, ret |-> 0]

NoIntent == [id |-> 0]
NoAccount == [account_type |-> "None", practice_id |-> 0]
Account(account_type, practice_id) == [account_type |-> account_type, practice_id |-> practice_id]

\* uuid.uuid4(): an identifier no row has carried.
uuid4(db) ==
  LET used == {0} \cup {i.id : i \in db.intents} \cup {e.related_id : e \in db.entries}
  IN 1 + (CHOOSE m \in used : \A x \in used : x <= m)

\* db.query(PaymentIntent).filter(PaymentIntent.id == id).first()
IntentById(db, id) ==
  IF \E i \in db.intents : i.id = id THEN CHOOSE i \in db.intents : i.id = id ELSE NoIntent

\* Mutant: the lookup by idempotency key finds nothing.
IntentByKey_finds_none(db, idempotency_key) == NoIntent

\* db.query(PaymentIntent).filter(PaymentIntent.idempotency_key == key).first()
IntentByKey(db, idempotency_key) ==
  IF \E i \in db.intents : i.idempotency_key = idempotency_key
    THEN CHOOSE i \in db.intents : i.idempotency_key = idempotency_key
    ELSE NoIntent

\* db.query(PaymentIntent).filter(PaymentIntent.claim_id == claim_id).first()
IntentByClaim(db, claim_id) ==
  IF \E i \in db.intents : i.claim_id = claim_id
    THEN CHOOSE i \in db.intents : i.claim_id = claim_id
    ELSE NoIntent

\* The session's intent row `old` rewritten as `new`.
UpdateIntent(db, old, new) == [db EXCEPT !.intents = (@ \ {old}) \cup {new}]

get_account(db, account_type, practice_id) ==
  IF Account(account_type, practice_id) \in db.accounts
    THEN Account(account_type, practice_id) ELSE NoAccount

get_or_create_account(db, account_type, practice_id) ==
  [db EXCEPT !.accounts = @ \cup {Account(account_type, practice_id)}]

RECURSIVE SumSigned(_)
SumSigned(S) ==
  IF S = {} THEN 0
  ELSE LET e == CHOOSE x \in S : TRUE
       IN (IF e.direction = "CREDIT" THEN e.amount_cents ELSE 0 - e.amount_cents)
            + SumSigned(S \ {e})

\* Mutant: without a filter, only the POSTED entries count.
compute_balance_posted_only(db, account, status_filter) ==
  SumSigned({e \in db.entries :
               /\ e.account = account
               /\ e.status = IF status_filter # "None" THEN status_filter ELSE "POSTED"})

\* status_filter "None": every entry that is not REVERSED.
compute_balance(db, account, status_filter) ==
  SumSigned({e \in db.entries :
               /\ e.account = account
               /\ IF status_filter # "None" THEN e.status = status_filter
                                            ELSE e.status # "REVERSED"})

\* Mutant: the idempotency key is not looked up.
create_entry_no_lookup(db, account, direction, amount_cents, related_type, related_id, idempotency_key, claim_id, status) ==
  POk([db EXCEPT !.entries = @ \cup
         {[account |-> account, direction |-> direction, amount_cents |-> amount_cents,
           related_type |-> related_type, related_id |-> related_id,
           claim_id |-> claim_id, status |-> status,
           idempotency_key |-> idempotency_key]}], 0)

create_entry(db, account, direction, amount_cents, related_type, related_id, idempotency_key, claim_id, status) ==
  IF amount_cents <= 0 THEN PRaise("LedgerError", db)
  ELSE IF \E e \in db.entries : e.idempotency_key = idempotency_key
    THEN PRaise("DuplicateEntryError", db)
  ELSE POk([db EXCEPT !.entries = @ \cup
              {[account |-> account, direction |-> direction, amount_cents |-> amount_cents,
                related_type |-> related_type, related_id |-> related_id,
                claim_id |-> claim_id, status |-> status,
                idempotency_key |-> idempotency_key]}], 0)

\* f"payment:{payment_intent.id}:{step}:{side}"
EntryKey(payment_intent, step, side) == <<"payment", payment_intent.id, step, side>>

\* Two create_entry calls in a row; the second is not made when the first raises.
EntryPair(db, payment_intent, step, debit_account, credit_account, amount_cents, status) ==
  Let1(create_entry(db, debit_account, "DEBIT", amount_cents, "PAYMENT_INTENT",
                    payment_intent.id, EntryKey(payment_intent, step, "debit"),
                    payment_intent.claim_id, status),
       LAMBDA d :
         IF d.outcome # "ok" THEN d
         ELSE create_entry(d.db, credit_account, "CREDIT", amount_cents, "PAYMENT_INTENT",
                           payment_intent.id, EntryKey(payment_intent, step, "credit"),
                           payment_intent.claim_id, status))

\* Mutant: the PENDING entries keep their status.
FlipPending_keeps_status(db, payment_intent, status) == db

\* Mutant: only the debit side of the PENDING entries is set to `status`.
FlipPending_debits_only(db, payment_intent, status) ==
  [db EXCEPT !.entries =
     {IF e.related_id = payment_intent.id /\ e.related_type = "PAYMENT_INTENT"
         /\ e.status = "PENDING" /\ e.direction = "DEBIT"
        THEN [e EXCEPT !.status = status] ELSE e : e \in @}]

\* The PENDING entries of the intent set to `status`.
FlipPending(db, payment_intent, status) ==
  [db EXCEPT !.entries =
     {IF e.related_id = payment_intent.id /\ e.related_type = "PAYMENT_INTENT" /\ e.status = "PENDING"
        THEN [e EXCEPT !.status = status] ELSE e : e \in @}]

reserve_funds(db, payment_intent, amount_cents) ==
  LET cash_account == get_account(db, "CAPITAL_CASH", 0)
      clearing_account == get_account(db, "PAYMENT_CLEARING", 0)
  IN IF cash_account = NoAccount THEN PRaise("LedgerError", db)
     ELSE IF clearing_account = NoAccount THEN PRaise("LedgerError", db)
     ELSE IF compute_balance(db, cash_account, "None") < amount_cents
       THEN PRaise("InsufficientFundsError", db)
     ELSE EntryPair(db, payment_intent, "reserve", cash_account, clearing_account,
                    amount_cents, "PENDING")

\* Mutant: the ledger posts no settlement.
ledger_confirm_payment_posts_nothing(db, payment_intent) == POk(db, 0)

ledger_confirm_payment(db, payment_intent) ==
  LET db1 == FlipPending(db, payment_intent, "POSTED")
      clearing_account == get_account(db1, "PAYMENT_CLEARING", 0)
      db2 == get_or_create_account(db1, "PRACTICE_PAYABLE", payment_intent.practice_id)
  IN IF clearing_account = NoAccount THEN PRaise("LedgerError", db1)
     ELSE EntryPair(db2, payment_intent, "settle", clearing_account,
                    Account("PRACTICE_PAYABLE", payment_intent.practice_id),
                    payment_intent.amount_cents, "POSTED")

\* Mutant: the reservation is neither reversed nor released.
release_reservation_keeps_reservation(db, payment_intent) == POk(db, 0)

release_reservation(db, payment_intent) ==
  LET db1 == FlipPending(db, payment_intent, "REVERSED")
      cash_account == get_account(db1, "CAPITAL_CASH", 0)
      clearing_account == get_account(db1, "PAYMENT_CLEARING", 0)
  IN IF cash_account = NoAccount THEN PRaise("LedgerError", db1)
     ELSE IF clearing_account = NoAccount THEN PRaise("LedgerError", db1)
     ELSE EntryPair(db1, payment_intent, "release", clearing_account, cash_account,
                    payment_intent.amount_cents, "POSTED")

\* The three sums of the ledger summary; the payable sum runs over the entries of all
\* PRACTICE_PAYABLE accounts that are not REVERSED.
get_ledger_summary(db) ==
  LET cash_account == get_account(db, "CAPITAL_CASH", 0)
      clearing_account == get_account(db, "PAYMENT_CLEARING", 0)
  IN [capital_cash_cents |->
        IF cash_account # NoAccount THEN compute_balance(db, cash_account, "None") ELSE 0,
      payment_clearing_cents |->
        IF clearing_account # NoAccount THEN compute_balance(db, clearing_account, "None") ELSE 0,
      total_practice_payable_cents |->
        SumSigned({e \in db.entries : /\ e.account.account_type = "PRACTICE_PAYABLE"
                                      /\ e.account \in db.accounts
                                      /\ e.status # "REVERSED"})]

\* ---- SimulatedProvider (providers/simulated.py)
\* _payments is a class attribute: one cache for every provider instance of the process.
\* `draw` is what random.random()/random.choice would make of a payment not yet cached.
CachedResult(prov, idempotency_key) == CHOOSE r \in prov : r.idempotency_key = idempotency_key

\* Mutant: the provider does not look the key up in its cache.
provider_send_payment_uncached(prov, idempotency_key, draw) ==
  LET result == [idempotency_key |-> idempotency_key,
                 status |-> IF draw = "SUCCESS" THEN "SUCCESS" ELSE "FAILED",
                 provider_reference |-> Cardinality(prov) + 1,
                 failure_code |-> IF draw = "SUCCESS" THEN "None" ELSE draw,
                 failure_message |-> FailureMessage(draw)]
  IN [result |-> result, prov |-> prov \cup {result}]

provider_send_payment(prov, idempotency_key, draw) ==
  IF \E r \in prov : r.idempotency_key = idempotency_key
    THEN [result |-> CachedResult(prov, idempotency_key), prov |-> prov]
    ELSE LET result == [idempotency_key |-> idempotency_key,
                        status |-> IF draw = "SUCCESS" THEN "SUCCESS" ELSE "FAILED",
                        provider_reference |-> Cardinality(prov) + 1,
                        failure_code |-> IF draw = "SUCCESS" THEN "None" ELSE draw,
                 failure_message |-> FailureMessage(draw)]
         IN [result |-> result, prov |-> prov \cup {result}]

\* ---- PaymentOrchestrationService (services/payments.py)
\* Mutant: the session keeps what it wrote.
rollback_keeps_writes(committed, db) == db

\* db.rollback(): the session is back at what is committed.
rollback(committed, db) == committed

\* `committed` is what db.rollback() returns the session to.
create_payment_intent(committed, db, claim_id) ==
  LET claim == db.claims[claim_id]
      idempotency_key == generate_idempotency_key(claim_id)
      existing == IntentByKey(db, idempotency_key)
      existing_by_claim == IntentByClaim(db, claim_id)
      payment_intent == [id |-> uuid4(db), claim_id |-> claim_id,
                         practice_id |-> claim.practice_id,
                         amount_cents |-> claim.amount_cents, status |-> "QUEUED",
                         idempotency_key |-> idempotency_key,
                         provider_reference |-> 0, failure_code |-> "None",
                         failure_message |-> "None",
                         sent_at |-> "None", confirmed_at |-> "None"]
  IN IF claim.status # "APPROVED" THEN PRaise("InvalidClaimStateError", db)
     ELSE IF existing # NoIntent THEN POk(db, existing.id)
     ELSE IF existing_by_claim # NoIntent THEN PRaise("PaymentAlreadyExistsError", db)
     ELSE Let1(reserve_funds([db EXCEPT !.intents = @ \cup {payment_intent}],
                             payment_intent, payment_intent.amount_cents),
               LAMBDA reserved :
                 IF reserved.outcome = "InsufficientFundsError"
                   THEN PRaise("InsufficientFundsError", rollback(committed, reserved.db))
                 ELSE IF reserved.outcome = "DuplicateEntryError"
                   THEN POk(reserved.db, payment_intent.id)
                 ELSE IF reserved.outcome # "ok" THEN PRaise(reserved.outcome, reserved.db)
                 ELSE POk(reserved.db, payment_intent.id))

\* Mutant: the failure handler does nothing.
handle_payment_failure_skipped(db, payment_intent, failure_code, failure_message) == db

\* Mutant: the claim is set to PAYMENT_EXCEPTION whatever its status.
handle_payment_failure_unguarded(db, payment_intent, failure_code, failure_message) ==
  [UpdateIntent(db, payment_intent,
                [payment_intent EXCEPT !.status = "FAILED", !.failure_code = failure_code,
                                       !.failure_message = failure_message])
     EXCEPT !.claims[payment_intent.claim_id] =
              [@ EXCEPT !.payment_exception = TRUE, !.exception_code = failure_code,
                        !.status = "PAYMENT_EXCEPTION"]]

_handle_payment_failure(db, payment_intent, failure_code, failure_message) ==
  Let1(release_reservation(db, payment_intent),
       LAMBDA released :
         [UpdateIntent(released.db, payment_intent,
                       [payment_intent EXCEPT !.status = "FAILED", !.failure_code = failure_code,
                                              !.failure_message = failure_message])
            EXCEPT !.claims[payment_intent.claim_id] =
                     [@ EXCEPT !.payment_exception = TRUE,
                               !.exception_code = failure_code,
                               !.status = IF @ = "APPROVED" THEN "PAYMENT_EXCEPTION" ELSE @]])

\* Returns the result and the provider's cache after the call.
WithProv(r, prov) == [outcome |-> r.outcome, db |-> r.db, ret |-> r.ret, prov |-> prov]

send_payment(db, prov, payment_intent, draw) ==
  IF payment_intent.status # "QUEUED"
    THEN IF payment_intent.status \in {"SENT", "CONFIRMED"}
           THEN WithProv(POk(db, payment_intent.id), prov)
           ELSE WithProv(PRaise("PaymentError", db), prov)
  ELSE Let1(provider_send_payment(prov, payment_intent.idempotency_key, draw),
            LAMBDA sent :
              LET result == sent.result
                  pi1 == [payment_intent EXCEPT !.provider_reference = result.provider_reference,
                                                !.sent_at = "utcnow"]
                  db1 == UpdateIntent(db, payment_intent, pi1)
              IN IF result.status = "SUCCESS"
                   THEN WithProv(POk(UpdateIntent(db1, pi1, [pi1 EXCEPT !.status = "SENT"]),
                                     pi1.id), sent.prov)
                 ELSE IF result.status = "FAILED"
                   THEN WithProv(POk(_handle_payment_failure(db1, pi1, result.failure_code,
                                                             result.failure_message),
                                     pi1.id), sent.prov)
                 ELSE WithProv(POk(db1, pi1.id), sent.prov))

\* Mutant: an intent of any status but CONFIRMED is confirmed.
confirm_payment_unguarded(db, payment_intent) ==
  IF payment_intent.status = "CONFIRMED" THEN POk(db, payment_intent.id)
  ELSE Let1(ledger_confirm_payment(db, payment_intent),
            LAMBDA settled :
              POk([UpdateIntent(settled.db, payment_intent,
                                [payment_intent EXCEPT !.status = "CONFIRMED",
                                                       !.confirmed_at = "utcnow"])
                     EXCEPT !.claims[payment_intent.claim_id].status =
                              IF @ = "APPROVED" THEN "PAID" ELSE @],
                  payment_intent.id))

confirm_payment(db, payment_intent) ==
  IF payment_intent.status = "CONFIRMED" THEN POk(db, payment_intent.id)
  ELSE IF payment_intent.status # "SENT" THEN PRaise("PaymentError", db)
  ELSE Let1(ledger_confirm_payment(db, payment_intent),
            LAMBDA settled :
              IF settled.outcome \notin {"ok", "DuplicateEntryError"}
                THEN PRaise(settled.outcome, settled.db)
              ELSE POk([UpdateIntent(settled.db, payment_intent,
                                     [payment_intent EXCEPT !.status = "CONFIRMED",
                                                            !.confirmed_at = "utcnow"])
                          EXCEPT !.claims[payment_intent.claim_id].status =
                                   IF @ = "APPROVED" THEN "PAID" ELSE @],
                       payment_intent.id))

\* Mutant: the status of the intent is not looked at.
fail_payment_unguarded(db, payment_intent, failure_code, failure_message) ==
  POk(_handle_payment_failure(db, payment_intent, failure_code, failure_message),
      payment_intent.id)

fail_payment(db, payment_intent, failure_code, failure_message) ==
  IF payment_intent.status = "FAILED" THEN POk(db, payment_intent.id)
  ELSE IF payment_intent.status = "CONFIRMED" THEN PRaise("PaymentError", db)
  ELSE POk(_handle_payment_failure(db, payment_intent, failure_code, failure_message),
           payment_intent.id)

\* return payment_intent, payment_intent.status == CONFIRMED
WithSuccess(r) ==
  [outcome |-> r.outcome, db |-> r.db, ret |-> r.ret, prov |-> r.prov,
   success |-> r.outcome = "ok" /\ IntentById(r.db, r.ret).status = "CONFIRMED"]

\* Mutant: the intent create returns is sent and confirmed whatever its status.
process_approved_claim_always_sends(committed, db, prov, claim_id, draw) ==
  Let1(create_payment_intent(committed, db, claim_id),
       LAMBDA created :
         IF created.outcome # "ok" THEN WithSuccess(WithProv(created, prov))
         ELSE Let1(send_payment(created.db, prov, IntentById(created.db, created.ret), draw),
                   LAMBDA sent :
                     IF sent.outcome # "ok" THEN WithSuccess(sent)
                     ELSE IF IntentById(sent.db, sent.ret).status = "SENT"
                       THEN WithSuccess(WithProv(confirm_payment(sent.db, IntentById(sent.db, sent.ret)),
                                                 sent.prov))
                     ELSE WithSuccess(sent)))

\* An exception of a step leaves the function there; `success` is what it returns
\* next to the intent.
process_approved_claim(committed, db, prov, claim_id, draw) ==
  Let1(create_payment_intent(committed, db, claim_id),
       LAMBDA created :
         IF created.outcome # "ok" THEN WithSuccess(WithProv(created, prov))
         ELSE IF IntentById(created.db, created.ret).status # "QUEUED"
           THEN WithSuccess(WithProv(created, prov))
         ELSE Let1(send_payment(created.db, prov, IntentById(created.db, created.ret), draw),
                   LAMBDA sent :
                     IF sent.outcome # "ok" THEN WithSuccess(sent)
                     ELSE IF IntentById(sent.db, sent.ret).status = "SENT"
                       THEN WithSuccess(WithProv(confirm_payment(sent.db, IntentById(sent.db, sent.ret)),
                                                 sent.prov))
                     ELSE WithSuccess(sent)))

\* Mutant: the journal entries of the deleted intent are deleted with it.
retry_failed_payment_deletes_entries(committed, db, prov, payment_intent, draw) ==
  LET db1 == [db EXCEPT !.claims[payment_intent.claim_id].payment_exception = FALSE,
                        !.claims[payment_intent.claim_id].exception_code = "None",
                        !.intents = @ \ {payment_intent},
                        !.entries = {e \in @ : e.related_id # payment_intent.id}]
  IN IF payment_intent.status # "FAILED" THEN WithProv(PRaise("PaymentError", db), prov)
     ELSE process_approved_claim(committed, db1, prov, payment_intent.claim_id, draw)

retry_failed_payment(committed, db, prov, payment_intent, draw) ==
  LET db1 == [db EXCEPT !.claims[payment_intent.claim_id].payment_exception = FALSE,
                        !.claims[payment_intent.claim_id].exception_code = "None",
                        !.intents = @ \ {payment_intent}]
  IN IF payment_intent.status # "FAILED" THEN WithProv(PRaise("PaymentError", db), prov)
     ELSE process_approved_claim(committed, db1, prov, payment_intent.claim_id, draw)

\* ---- the payment endpoints (routers/payments.py) and the calls
CurrentPDb == PDb(claims_v2, payment_intents, ledger_entries, ledger_accounts)

\* get_db: the request's session; what was not committed when the request ends is gone.
get_db(committed, result) == IF result.outcome = "ok" THEN result.db ELSE committed

PayCommit(db) ==
  /\ claims_v2' = db.claims
  /\ payment_intents' = db.intents
  /\ ledger_entries' = db.entries
  /\ ledger_accounts' = db.accounts
  /\ UNCHANGED <<pools, practices, claims, last, sessions>>

\* Every identifier the tables carry is one the model has room for.
WithinUuids(db) ==
  /\ \A i \in db.intents : i.id \in Uuids
  /\ \A e \in db.entries : e.related_id \in Uuids

PCalled(op, arg, result, http, existed) ==
  [op |-> op, arg |-> arg, outcome |-> result.outcome, ret |-> result.ret,
   http |-> http, existed |-> existed]

PayHttpStatus(outcome) ==
  IF outcome = "ok" THEN 200
  ELSE IF outcome = "NotFound" THEN 404
  ELSE IF outcome \in {"HTTPException", "InsufficientFundsError"} \/ IsPaymentError(outcome) THEN 400
  ELSE 500

\* create_payment_intent called by a caller that commits when it returns.
CreateCall(claim_id) ==
  \E r \in {create_payment_intent(CurrentPDb, CurrentPDb, claim_id)} :
     /\ WithinUuids(r.db)
     /\ PayCommit(get_db(CurrentPDb, r))
     /\ provider_payments' = provider_payments
     /\ plast' = PCalled("create", claim_id, r, 0,
                         IntentByKey(CurrentPDb, generate_idempotency_key(claim_id)) # NoIntent)

SendCall(payment_id, draw) ==
  /\ IntentById(CurrentPDb, payment_id) # NoIntent
  /\ \E r \in {send_payment(CurrentPDb, provider_payments, IntentById(CurrentPDb, payment_id), draw)} :
        /\ PayCommit(get_db(CurrentPDb, r))
        /\ provider_payments' = r.prov
        /\ plast' = PCalled("send", payment_id, r, 0, TRUE)

ConfirmCall(payment_id) ==
  /\ IntentById(CurrentPDb, payment_id) # NoIntent
  /\ \E r \in {confirm_payment(CurrentPDb, IntentById(CurrentPDb, payment_id))} :
        /\ PayCommit(get_db(CurrentPDb, r))
        /\ provider_payments' = provider_payments
        /\ plast' = PCalled("confirm", payment_id, r, 0, TRUE)

FailCall(payment_id, failure_code, failure_message) ==
  /\ IntentById(CurrentPDb, payment_id) # NoIntent
  /\ \E r \in {fail_payment(CurrentPDb, IntentById(CurrentPDb, payment_id), failure_code, failure_message)} :
        /\ PayCommit(get_db(CurrentPDb, r))
        /\ provider_payments' = provider_payments
        /\ plast' = PCalled("fail", payment_id, r, 0, TRUE)

process_payment_for_claim(db, prov, claim_id, draw) ==
  IF db.claims[claim_id].status # "APPROVED"
    THEN WithProv(PRaise("HTTPException", db), prov)
    ELSE process_approved_claim(db, db, prov, claim_id, draw)

ProcessEndpoint(claim_id, draw) ==
  \E r \in {process_payment_for_claim(CurrentPDb, provider_payments, claim_id, draw)} :
     /\ WithinUuids(r.db)
     /\ PayCommit(get_db(CurrentPDb, r))
     /\ provider_payments' = r.prov
     /\ plast' = PCalled("process", claim_id, r, PayHttpStatus(r.outcome),
                         IntentByKey(CurrentPDb, generate_idempotency_key(claim_id)) # NoIntent)

retry_payment(db, prov, payment_id, draw) ==
  LET payment == IntentById(db, payment_id)
  IN IF payment = NoIntent THEN WithProv(PRaise("NotFound", db), prov)
     ELSE IF payment.status # "FAILED" THEN WithProv(PRaise("HTTPException", db), prov)
     ELSE retry_failed_payment(db, db, prov, payment, draw)

RetryEndpoint(payment_id, draw) ==
  \E r \in {retry_payment(CurrentPDb, provider_payments, payment_id, draw)} :
     /\ WithinUuids(r.db)
     /\ PayCommit(get_db(CurrentPDb, r))
     /\ provider_payments' = r.prov
     /\ plast' = PCalled("retry", payment_id, r, PayHttpStatus(r.outcome), TRUE)

seed_capital(db, amount_cents) ==
  LET db1 == get_or_create_account(db, "CAPITAL_CASH", 0)
      adjustment_id == uuid4(db1)
      created == create_entry(db1, Account("CAPITAL_CASH", 0), "CREDIT", amount_cents,
                              "ADJUSTMENT", adjustment_id, <<"seed", adjustment_id>>, 0, "POSTED")
  IN IF amount_cents <= 0 THEN PRaise("HTTPException", db)
     ELSE IF created.outcome # "ok" THEN PRaise("HTTPException", db)
     ELSE created

SeedCapital(amount_cents) ==
  \E r \in {seed_capital(CurrentPDb, amount_cents)} :
     /\ WithinUuids(r.db)
     /\ PayCommit(get_db(CurrentPDb, r))
     /\ provider_payments' = provider_payments
     /\ plast' = PCalled("seed", amount_cents, r, PayHttpStatus(r.outcome), TRUE)

cancel_payment(db, payment_id) ==
  LET payment == IntentById(db, payment_id)
      db1 == [db EXCEPT !.claims[payment.claim_id] =
                [@ EXCEPT !.payment_exception = FALSE, !.exception_code = "None",
                          !.status = IF @ = "PAYMENT_EXCEPTION" THEN "DECLINED" ELSE @]]
  IN IF payment = NoIntent THEN PRaise("NotFound", db)
     ELSE IF payment.status \notin {"FAILED", "QUEUED"} THEN PRaise("HTTPException", db)
     ELSE POk(UpdateIntent(db1, payment,
                           [payment EXCEPT !.status = "FAILED", !.failure_code = "CANCELLED",
                                           !.failure_message = "reason"]),
              payment.id)

CancelEndpoint(payment_id) ==
  \E r \in {cancel_payment(CurrentPDb, payment_id)} :
     /\ PayCommit(get_db(CurrentPDb, r))
     /\ provider_payments' = provider_payments
     /\ plast' = PCalled("cancel", payment_id, r, PayHttpStatus(r.outcome), TRUE)

resolve_payment(db, payment_id) ==
  LET payment == IntentById(db, payment_id)
      db1 == [db EXCEPT !.claims[payment.claim_id] =
                [@ EXCEPT !.payment_exception = FALSE, !.exception_code = "None",
                          !.status = IF @ = "PAYMENT_EXCEPTION" THEN "APPROVED" ELSE @]]
  IN IF payment = NoIntent THEN PRaise("NotFound", db)
     ELSE IF payment.status # "FAILED" THEN PRaise("HTTPException", db)
     ELSE POk(db1, payment.id)

ResolveEndpoint(payment_id) ==
  \E r \in {resolve_payment(CurrentPDb, payment_id)} :
     /\ PayCommit(get_db(CurrentPDb, r))
     /\ provider_payments' = provider_payments
     /\ plast' = PCalled("resolve", payment_id, r, PayHttpStatus(r.outcome), TRUE)

\* models/ledger.py
LedgerEntryDirection == {"DEBIT", "CREDIT"}
LedgerEntryStatus == {"PENDING", "POSTED", "REVERSED"}

\* ---- the ledger service called on its own (services/ledger.py)
CashAccount == Account("CAPITAL_CASH", 0)
ClearingAccount == Account("PAYMENT_CLEARING", 0)

\* An intent of amount a for the claim, not yet in the tables, as create_payment_intent builds it.
FreshIntent(db, claim_id, a) ==
  [id |-> uuid4(db), claim_id |-> claim_id, practice_id |-> db.claims[claim_id].practice_id,
   amount_cents |-> a, status |-> "QUEUED",
   idempotency_key |-> generate_idempotency_key(claim_id),
   provider_reference |-> 0, failure_code |-> "None", failure_message |-> "None",
   sent_at |-> "None",
   confirmed_at |-> "None"]

\* The entries tagged to the payment intent.
EntriesOfIntent(db, payment_id) ==
  {e \in db.entries : e.related_type = "PAYMENT_INTENT" /\ e.related_id = payment_id}

\* The two reservation entries of the intent.
ReserveEntries(db, payment_intent) ==
  {e \in db.entries : e.idempotency_key \in {EntryKey(payment_intent, "reserve", "debit"),
                                             EntryKey(payment_intent, "reserve", "credit")}}

\* The intent the ledger calls are made for: one per claim, of the claim's amount.
LedgerIntent(claim_id) ==
  [FreshIntent(CurrentPDb, claim_id, claims_v2[claim_id].amount_cents) EXCEPT !.id = claim_id + 1]

\* What the callers of the ledger service keep: they take DuplicateEntryError as
\* "already done" and go on to commit; any other error ends the request.
ledger_caller(committed, result) ==
  IF result.outcome \in {"ok", "DuplicateEntryError"} THEN result.db ELSE committed

ReserveCall(claim_id) ==
  \E r \in {reserve_funds(CurrentPDb, LedgerIntent(claim_id), LedgerIntent(claim_id).amount_cents)} :
     /\ PayCommit(ledger_caller(CurrentPDb, r))
     /\ provider_payments' = provider_payments
     /\ plast' = PCalled("reserve_funds", claim_id, r, 0,
                         ReserveEntries(CurrentPDb, LedgerIntent(claim_id)) # {})

\* The orchestrator confirms only an intent that was reserved and has not failed.
LedgerConfirmCall(claim_id) ==
  /\ ReserveEntries(CurrentPDb, LedgerIntent(claim_id)) # {}
  /\ \A e \in ledger_entries :
        e.idempotency_key # EntryKey(LedgerIntent(claim_id), "release", "debit")
  /\ \E r \in {ledger_confirm_payment(CurrentPDb, LedgerIntent(claim_id))} :
        /\ PayCommit(ledger_caller(CurrentPDb, r))
        /\ provider_payments' = provider_payments
        /\ plast' = PCalled("confirm_payment", claim_id, r, 0,
                            \E e \in ledger_entries :
                               e.idempotency_key = EntryKey(LedgerIntent(claim_id), "settle", "debit"))

\* The orchestrator releases only an intent that was reserved and is not confirmed.
ReleaseCall(claim_id) ==
  /\ ReserveEntries(CurrentPDb, LedgerIntent(claim_id)) # {}
  /\ \A e \in ledger_entries :
        e.idempotency_key # EntryKey(LedgerIntent(claim_id), "settle", "debit")
  /\ \E r \in {release_reservation(CurrentPDb, LedgerIntent(claim_id))} :
        /\ PayCommit(ledger_caller(CurrentPDb, r))
        /\ provider_payments' = provider_payments
        /\ plast' = PCalled("release_reservation", claim_id, r, 0,
                            \E e \in ledger_entries :
                               e.idempotency_key = EntryKey(LedgerIntent(claim_id), "release", "debit"))

\* The postings run again: <<direction, amount, status>>.
Reposts == {<<"DEBIT", 1, "PENDING">>, <<"CREDIT", Claim2Amount, "REVERSED">>}

\* A caller runs a posting again under the idempotency key of an entry of the journal,
\* with any account, direction, amount and status, and commits when it returns.
RepostEntry(entry, account, direction, amount_cents, status) ==
  /\ entry \in ledger_entries
  /\ account \in ledger_accounts
  /\ \E r \in {create_entry(CurrentPDb, account, direction, amount_cents, entry.related_type,
                             entry.related_id, entry.idempotency_key, entry.claim_id, status)} :
        /\ PayCommit(ledger_caller(CurrentPDb, r))
        /\ provider_payments' = provider_payments
        /\ plast' = PCalled("create_entry", 0, r, 0, TRUE)

\* ---- create_payment_intent step by step, in requests that run at the same time
\* Each request has a session of its own; a session reads what is committed and what
\* it wrote itself (PostgreSQL, READ COMMITTED).
Procs == {"A", "B"}

IdleSession ==
  [pc |-> "idle", claim_id |-> 0, intent |-> NoIntent, entries |-> {}, outcome |-> "ok",
   ret |-> 0, via |-> "None"]

\* How the call ended; `via` is the return statement or raise it ended at.
DoneSession(claim_id, outcome, ret, via) ==
  [pc |-> "done", claim_id |-> claim_id, intent |-> NoIntent, entries |-> {},
   outcome |-> outcome, ret |-> ret, via |-> via]

\* Mutant: the table has no unique constraint.
UniqueViolation_never(db, payment_intent) == FALSE

\* models/payment.py: claim_id and idempotency_key are unique.
UniqueViolation(db, payment_intent) ==
  \E i \in db.intents : \/ i.claim_id = payment_intent.claim_id
                        \/ i.idempotency_key = payment_intent.idempotency_key

\* The tables the session of process p sees.
SessionView(p) ==
  PDb(claims_v2,
      payment_intents \cup (IF sessions[p].pc \in {"flushed", "reserved"} THEN {sessions[p].intent} ELSE {}),
      ledger_entries \cup sessions[p].entries, ledger_accounts)

\* uuid.uuid4() of a request: an identifier no row and no other session carries.
SessionUuid ==
  uuid4([CurrentPDb EXCEPT !.intents =
           @ \cup {sessions[q].intent : q \in {x \in Procs : sessions[x].intent # NoIntent}}])

NoneInFlight == \A p \in Procs : sessions[p].pc \in {"idle", "done"}

RaceUnchanged ==
  UNCHANGED <<pools, practices, claims, last, claims_v2, ledger_accounts, provider_payments, plast>>

\* payments.py 39-69: the status check, the two lookups, the new PaymentIntent object.
BeginCreate(p, claim_id) ==
  /\ sessions[p].pc = "idle"
  /\ SessionUuid \in Uuids
  /\ LET existing == IntentByKey(CurrentPDb, generate_idempotency_key(claim_id))
         existing_by_claim == IntentByClaim(CurrentPDb, claim_id)
         payment_intent == [FreshIntent(CurrentPDb, claim_id, claims_v2[claim_id].amount_cents)
                              EXCEPT !.id = SessionUuid]
     IN sessions' = [sessions EXCEPT ![p] =
          IF claims_v2[claim_id].status # "APPROVED"
            THEN DoneSession(claim_id, "InvalidClaimStateError", 0, "raise")
          ELSE IF existing # NoIntent THEN DoneSession(claim_id, "ok", existing.id, "existing")
          ELSE IF existing_by_claim # NoIntent
            THEN DoneSession(claim_id, "PaymentAlreadyExistsError", 0, "raise")
          ELSE [pc |-> "built", claim_id |-> claim_id, intent |-> payment_intent,
                entries |-> {}, outcome |-> "ok", ret |-> 0, via |-> "None"]]
  /\ UNCHANGED <<payment_intents, ledger_entries>>
  /\ RaceUnchanged

\* payments.py 71-82: db.add, db.flush. The INSERT waits while another transaction
\* holds an uncommitted row with the same unique key; against a committed one it fails
\* with IntegrityError, and the request rolls back and returns the intent of the claim.
FlushCreate(p) ==
  /\ sessions[p].pc = "built"
  /\ \A q \in Procs \ {p} :
        ~(sessions[q].pc \in {"flushed", "reserved"}
          /\ sessions[q].intent.claim_id = sessions[p].claim_id)
  /\ LET existing == IntentByClaim(CurrentPDb, sessions[p].claim_id)
     IN sessions' = [sessions EXCEPT ![p] =
          IF ~UniqueViolation(CurrentPDb, sessions[p].intent) THEN [@ EXCEPT !.pc = "flushed"]
          ELSE IF existing # NoIntent
            THEN DoneSession(sessions[p].claim_id, "ok", existing.id, "IntegrityError")
          ELSE DoneSession(sessions[p].claim_id, "PaymentError", 0, "raise")]
  /\ UNCHANGED <<payment_intents, ledger_entries>>
  /\ RaceUnchanged

\* payments.py 84-91: reserve_funds in the session; InsufficientFundsError rolls back.
ReserveCreate(p) ==
  /\ sessions[p].pc = "flushed"
  /\ \E r \in {reserve_funds(SessionView(p), sessions[p].intent, sessions[p].intent.amount_cents)} :
        sessions' = [sessions EXCEPT ![p] =
          IF r.outcome = "InsufficientFundsError"
            THEN DoneSession(sessions[p].claim_id, "InsufficientFundsError", 0, "raise")
          ELSE IF r.outcome \in {"ok", "DuplicateEntryError"}
            THEN [@ EXCEPT !.pc = "reserved", !.entries = r.db.entries \ ledger_entries,
                           !.ret = sessions[p].intent.id]
          ELSE DoneSession(sessions[p].claim_id, r.outcome, 0, "raise")]
  /\ UNCHANGED <<payment_intents, ledger_entries>>
  /\ RaceUnchanged

\* The caller's db.commit() after create_payment_intent returned the new intent.
CommitCreate(p) ==
  /\ sessions[p].pc = "reserved"
  /\ payment_intents' = payment_intents \cup {sessions[p].intent}
  /\ ledger_entries' = ledger_entries \cup sessions[p].entries
  /\ sessions' = [sessions EXCEPT ![p] =
                    DoneSession(sessions[p].claim_id, "ok", sessions[p].ret, "created")]
  /\ RaceUnchanged

\* The request is over.
EndRequest(p) ==
  /\ sessions[p].pc = "done"
  /\ sessions' = [sessions EXCEPT ![p] = IdleSession]
  /\ UNCHANGED <<payment_intents, ledger_entries>>
  /\ RaceUnchanged

\* ---- the claim state machine (models/claim.py, state_machine.py, routers/claims.py)
ClaimStatusV2 ==
  {"NEW", "NEEDS_REVIEW", "APPROVED", "PAID", "COLLECTING", "CLOSED", "DECLINED",
   "PAYMENT_EXCEPTION"}

\* Mutant: the dict has no entry for PAYMENT_EXCEPTION.
CLAIM_STATUS_TRANSITIONS_V2_without_exception ==
  ("NEW" :> {"NEEDS_REVIEW", "APPROVED", "DECLINED"})
    @@ ("NEEDS_REVIEW" :> {"APPROVED", "DECLINED"})
    @@ ("APPROVED" :> {"PAID", "DECLINED", "PAYMENT_EXCEPTION"})
    @@ ("PAID" :> {"COLLECTING"})
    @@ ("COLLECTING" :> {"CLOSED"})
    @@ ("CLOSED" :> {})
    @@ ("DECLINED" :> {})

\* The dict, entry by entry.
CLAIM_STATUS_TRANSITIONS_V2 ==
  ("NEW" :> {"NEEDS_REVIEW", "APPROVED", "DECLINED"})
    @@ ("NEEDS_REVIEW" :> {"APPROVED", "DECLINED"})
    @@ ("APPROVED" :> {"PAID", "DECLINED", "PAYMENT_EXCEPTION"})
    @@ ("PAID" :> {"COLLECTING"})
    @@ ("COLLECTING" :> {"CLOSED"})
    @@ ("CLOSED" :> {})
    @@ ("DECLINED" :> {})
    @@ ("PAYMENT_EXCEPTION" :> {"APPROVED", "DECLINED"})

TERMINAL_STATUSES_V2 == {"CLOSED", "DECLINED"}

\* dict.get(key, frozenset())
DictGet(table, key) == IF key \in DOMAIN table THEN table[key] ELSE {}

NotRaised == [kind |-> "ok", current_status |-> "None", target_status |-> "None", message |-> "None"]

\* The exception object; the message is modelled by which of the three texts it is.
InvalidStatusTransitionError(current_status, target_status, message) ==
  [kind |-> "InvalidStatusTransitionError", current_status |-> current_status,
   target_status |-> target_status, message |-> message]

\* Mutant: the table of successors is not consulted.
validate_status_transition_v2_no_table(current_status, target_status) ==
  IF current_status = target_status
    THEN InvalidStatusTransitionError(current_status, target_status, "already")
  ELSE IF current_status \in TERMINAL_STATUSES_V2
    THEN InvalidStatusTransitionError(current_status, target_status, "complete")
  ELSE NotRaised

\* state_machine.validate_status_transition: NotRaised, or the exception it raises.
validate_status_transition_v2(current_status, target_status) ==
  IF current_status = target_status
    THEN InvalidStatusTransitionError(current_status, target_status, "already")
  ELSE IF current_status \in TERMINAL_STATUSES_V2
    THEN InvalidStatusTransitionError(current_status, target_status, "complete")
  ELSE IF target_status \notin DictGet(CLAIM_STATUS_TRANSITIONS_V2, current_status)
    THEN InvalidStatusTransitionError(current_status, target_status, "cannot")
  ELSE NotRaised

\* state_machine.can_transition
can_transition_v2(current_status, target_status) ==
  IF current_status = target_status THEN FALSE
  ELSE IF current_status \in TERMINAL_STATUSES_V2 THEN FALSE
  ELSE target_status \in DictGet(CLAIM_STATUS_TRANSITIONS_V2, current_status)

\* state_machine.get_valid_transitions
get_valid_transitions_v2(current_status) == DictGet(CLAIM_STATUS_TRANSITIONS_V2, current_status)

\* models.get_valid_transitions (the older table)
get_valid_transitions(current_status) == DictGet(CLAIM_STATUS_TRANSITIONS, current_status)

\* What a request may carry as to_status: the statuses and a string that is none.
ToStatuses == ClaimStatusV2 \cup {"BOGUS"}

MachineCalled(op, arg, outcome, ret, http) ==
  [op |-> op, arg |-> arg, outcome |-> outcome, ret |-> ret, http |-> http, existed |-> TRUE]

MachineUnchanged ==
  UNCHANGED <<pools, practices, claims, last, payment_intents, ledger_entries, ledger_accounts,
              provider_payments, sessions>>

\* POST /claims/{claim_id}/transition
TransitionClaim(claim_id, to_status) ==
  /\ \E raised \in {validate_status_transition_v2(claims_v2[claim_id].status, to_status)} :
        IF to_status \notin ClaimStatusV2
          THEN /\ claims_v2' = claims_v2
               /\ plast' = MachineCalled("transition", <<claims_v2[claim_id].status, to_status>>,
                                         "ValueError", NotRaised, 400)
        ELSE IF raised # NotRaised
          THEN /\ claims_v2' = claims_v2
               /\ plast' = MachineCalled("transition", <<claims_v2[claim_id].status, to_status>>,
                                         raised.kind, raised, 400)
        ELSE /\ claims_v2' = [claims_v2 EXCEPT ![claim_id].status = to_status]
             /\ plast' = MachineCalled("transition", <<claims_v2[claim_id].status, to_status>>,
                                       "ok", raised, 200)
  /\ MachineUnchanged

\* GET /claims/{claim_id}/transitions
GetClaimTransitions(claim_id) ==
  /\ claims_v2' = claims_v2
  /\ plast' = MachineCalled("transitions", <<claims_v2[claim_id].status>>, "ok",
                            get_valid_transitions_v2(claims_v2[claim_id].status), 200)
  /\ MachineUnchanged

\* validate_status_transition called with any two statuses.
ValidateCall(current_status, target_status) ==
  /\ claims_v2' = claims_v2
  /\ \E raised \in {validate_status_transition_v2(current_status, target_status)} :
        plast' = MachineCalled("validate", <<current_status, target_status>>, raised.kind, raised, 0)
  /\ MachineUnchanged

\* can_transition called with any two statuses.
CanTransitionCall(current_status, target_status) ==
  /\ claims_v2' = claims_v2
  /\ plast' = MachineCalled("can_transition", <<current_status, target_status>>, "ok",
                            can_transition_v2(current_status, target_status), 0)
  /\ MachineUnchanged

\* get_valid_transitions of either table called with any of its statuses.
ValidTransitionsCall(current_status) ==
  /\ claims_v2' = claims_v2
  /\ plast' = MachineCalled("get_valid_transitions", <<current_status>>, "ok",
                            IF current_status \in ClaimStatus
                              THEN get_valid_transitions(current_status)
                              ELSE get_valid_transitions_v2(current_status), 0)
  /\ MachineUnchanged

\* SimulatedProvider.reset(), or the process starting anew: the cache is in memory only.
ProviderReset ==
  /\ provider_payments # {}
  /\ provider_payments' = {}
  /\ plast' = [op |-> "reset", arg |-> 0, outcome |-> "ok", ret |-> 0, http |-> 0, existed |-> TRUE]
  /\ UNCHANGED <<claims_v2, payment_intents, ledger_entries, ledger_accounts>>
  /\ UNCHANGED <<pools, practices, claims, last, sessions>>

NewClaimV2(practice_id, amount_cents) ==
  [practice_id |-> practice_id, amount_cents |-> amount_cents, status |-> "APPROVED",
   payment_exception |-> FALSE, exception_code |-> "None"]

\* ======================================================== initial state and steps
NewPool(total_capital) ==
  [total_capital |-> total_capital, available_capital |-> total_capital,
   capital_allocated |-> 0, capital_pending_settlement |-> 0, capital_returned |-> 0,
   total_days_outstanding |-> 0, num_settled_claims |-> 0]

NewPractice(max_exposure_limit) ==
  [tenure_months |-> 24, historical_clean_claim_rate |-> 95,
   max_exposure_limit |-> max_exposure_limit, current_exposure |-> 0]

NewClaim(practice_id, billed_amount, expected_allowed_amount) ==
  [practice_id |-> practice_id, payer |-> "Aetna", procedure_code |-> <<"D0120">>,
   billed_amount |-> billed_amount,
   expected_allowed_amount |-> expected_allowed_amount,
   submission_date |-> SubmissionDay, funded_amount |-> 0, status |-> "submitted",
   decline_reason_code |-> "None"]

\* ---- underwrite_claim called on its own (app/underwriting.py)
\* A policy that also approves a payer whose name holds an excluded keyword, and whose
\* pay-rate table has no rate for the allowed code D0150.
wide_policy ==
  [default_policy EXCEPT
     !.approved_payers = @ \cup {"Aetna HMO"},
     !.procedure_historical_pay_rate =
        [c \in ALLOWED_CDT_CODES_V1 \ {"D0150"} |-> PROCEDURE_PAY_RATES_V1[c]]]

UwInput(payer, procedure_code, tenure_months, clean_claim_rate, remaining, capital, policy) ==
  [claim |-> [NewClaim("PR1", 3, 2) EXCEPT !.payer = payer, !.procedure_code = procedure_code],
   practice |-> [NewPractice(Practice1Limit) EXCEPT !.tenure_months = tenure_months,
                                                    !.historical_clean_claim_rate = clean_claim_rate],
   policy |-> policy, remaining_practice_exposure_limit |-> remaining,
   pool_available_capital |-> capital]

\* The inputs the calls are made with: payers with and without blanks and excluded
\* keywords, code lists as split(";") gives them, two tenures (months), two clean-claim
\* rates (percent), two exposure limits, two pool capitals, two policies.
UwInputs ==
  {UwInput(payer, pc, t, r, rem, cap, pol) :
     payer \in {"Aetna", " Aetna ", "Aetna HMO", "Medicaid", "Humana"},
     pc \in {<<"D0120">>, <<"D0120", " D0120">>, <<"D0150">>, <<"D2750">>, <<"X9999">>,
             <<"D2750", "X9999">>, <<"D0120", "X9999">>},
     t \in {6, 24}, r \in {80, 95}, rem \in {1, 2}, cap \in {1, 2},
     pol \in {default_policy, wide_policy}}

UnderwriteOf(in) ==
  underwrite_claim(in.claim, in.practice, in.policy, in.remaining_practice_exposure_limit,
                   in.pool_available_capital)

\* underwrite_claim called with one of the inputs; nothing is written.
UnderwriteClaimCall(in) ==
  /\ last' = [op |-> "underwrite_claim", cid |-> "", outcome |-> "ok", msg |-> "", http |-> 0,
              swallowed |-> {}, input |-> in, decision |-> UnderwriteOf(in)]
  /\ UNCHANGED <<pools, practices, claims, claims_v2, payment_intents, ledger_entries,
                 ledger_accounts, provider_payments, plast, sessions>>

Init ==
  /\ pools = [p \in PoolIds |-> NewPool(IF p = "POOL" THEN Pool1Capital ELSE Pool2Capital)]
  /\ practices = [p \in PracticeIds |-> NewPractice(IF p = "PR1" THEN Practice1Limit ELSE Practice2Limit)]
  /\ claims = [c \in ClaimIds |->
                 CASE c = "CLM1" -> NewClaim("PR1", 3, 2)
                   [] c = "CLM2" -> NewClaim("PR1", 3, 2)
                   [] OTHER      -> NewClaim("PR2", 1, 0)]
  /\ last = [op |-> "init", cid |-> "", outcome |-> "ok", msg |-> "", http |-> 0, swallowed |-> {}]
  /\ claims_v2 = [c \in PayClaimIds |->
                    IF c = 1 THEN NewClaimV2(1, Claim1Amount) ELSE NewClaimV2(2, Claim2Amount)]
  /\ payment_intents = {}
  /\ ledger_accounts = {Account("CAPITAL_CASH", 0), Account("PAYMENT_CLEARING", 0)}
  /\ ledger_entries =
       {[account |-> Account("CAPITAL_CASH", 0), direction |-> "CREDIT",
         amount_cents |-> SeededCapital, related_type |-> "ADJUSTMENT", related_id |-> 1,
         claim_id |-> 0, status |-> "POSTED", idempotency_key |-> <<"seed", 1>>]}
  /\ provider_payments = {}
  /\ plast = [op |-> "init", arg |-> 0, outcome |-> "ok", ret |-> 0, http |-> 0, existed |-> FALSE]
  /\ sessions = [p \in Procs |-> IdleSession]

Next ==
  \/ \E c \in ClaimIds, p \in PoolIds, f \in 0..MaxAmount : FundCall(c, p, f)
  \/ \E c \in ClaimIds, p \in PoolIds, d \in Days, a \in 0..MaxAmount : SettleCall(c, p, d, a)
  \/ \E c \in ClaimIds, p \in PoolIds : Underwrite(c, p)
  \/ \E c \in ClaimIds, p \in PoolIds : FundEndpoint(c, p)
  \/ \E c \in ClaimIds, p \in PoolIds, d \in Days, a \in 0..MaxAmount : SettleEndpoint(c, p, d, a)
  \/ \E p \in PoolIds, o \in Orders : Simulate(p, o, MaxDay)
  \/ \E c \in ClaimIds, p \in PoolIds : SimulateMain(c, p)

Spec == Init /\ [][Next]_vars

PayNext ==
  \/ \E c \in PayClaimIds : CreateCall(c)
  \/ \E i \in Uuids, d \in Draws : SendCall(i, d)
  \/ \E i \in Uuids : ConfirmCall(i)
  \/ \E i \in Uuids, f \in DrawnFailures, m \in GivenMessages : FailCall(i, f, m)
  \/ \E c \in PayClaimIds, d \in Draws : ProcessEndpoint(c, d)
  \/ \E i \in Uuids, d \in Draws : RetryEndpoint(i, d)
  \/ \E a \in 0..MaxSeedAmount : SeedCapital(a)
  \/ \E i \in Uuids : CancelEndpoint(i)
  \/ \E i \in Uuids : ResolveEndpoint(i)
  \/ ProviderReset

PaySpec == Init /\ [][PayNext]_vars

LedgerNext ==
  \/ \E c \in PayClaimIds : ReserveCall(c)
  \/ \E c \in PayClaimIds : LedgerConfirmCall(c)
  \/ \E c \in PayClaimIds : ReleaseCall(c)
  \/ \E e \in ledger_entries, acc \in ledger_accounts, p \in Reposts :
        RepostEntry(e, acc, p[1], p[2], p[3])
  \/ \E a \in 0..MaxSeedAmount : SeedCapital(a)

LedgerSpec == Init /\ [][LedgerNext]_vars

\* Creations under way at the same time, between whole process, retry and resolve requests.
RaceNext ==
  \/ \E p \in Procs, c \in PayClaimIds : BeginCreate(p, c)
  \/ \E p \in Procs : FlushCreate(p)
  \/ \E p \in Procs : ReserveCreate(p)
  \/ \E p \in Procs : CommitCreate(p)
  \/ \E p \in Procs : EndRequest(p)
  \/ \E c \in PayClaimIds, d \in Draws : NoneInFlight /\ ProcessEndpoint(c, d)
  \/ \E i \in Uuids, d \in Draws : NoneInFlight /\ RetryEndpoint(i, d)
  \/ \E i \in Uuids : NoneInFlight /\ ResolveEndpoint(i)

RaceSpec == Init /\ [][RaceNext]_vars

\* Claims moved by the transition endpoint, and the state machine's functions called.
MachineNext ==
  \/ \E c \in PayClaimIds, t \in ToStatuses : TransitionClaim(c, t)
  \/ \E c \in PayClaimIds : GetClaimTransitions(c)
  \/ \E s \in ClaimStatusV2, t \in ClaimStatusV2 : ValidateCall(s, t)
  \/ \E s \in ClaimStatusV2, t \in ClaimStatusV2 : CanTransitionCall(s, t)
  \/ \E s \in ClaimStatus \cup ClaimStatusV2 : ValidTransitionsCall(s)

MachineSpec == Init /\ [][MachineNext]_vars

UnderwriteNext == \E in \in UwInputs : UnderwriteClaimCall(in)

UnderwriteSpec == Init /\ [][UnderwriteNext]_vars

\* ---- fund_claim_atomic step by step, in sessions that run at the same time
\* app/db.py: SQLite through pysqlite. A SELECT takes no lock that outlives it; the
\* session keeps the rows it read as objects, the body changes the objects, and
\* session.commit() flushes one UPDATE per changed object that SETs the changed columns
\* to the objects' values, whatever the row holds by then.
FundSession(pc, pool_id, claim_id, funded_amount, pool, claim, practice) ==
  [pc |-> pc, pool_id |-> pool_id, claim_id |-> claim_id, funded_amount |-> funded_amount,
   pool |-> pool, claim |-> claim, practice |-> practice]

FundRaceUnchanged ==
  UNCHANGED <<last, claims_v2, payment_intents, ledger_entries, ledger_accounts,
              provider_payments, plast>>

\* ledger.py 98-105: the assertion on the amount, then the SELECT of the pool. The calls
\* under way at the same time are calls for different claims.
SelectPool(p, claim_id, pool_id, funded_amount) ==
  /\ sessions[p].pc = "idle"
  /\ \A q \in Procs \ {p} :
        IF sessions[q].pc = "idle" THEN TRUE ELSE sessions[q].claim_id # claim_id
  /\ sessions' = [sessions EXCEPT ![p] =
       IF ~(funded_amount > 0) THEN DoneSession(claim_id, "AssertionError", 0, "raise")
       ELSE FundSession("pool", pool_id, claim_id, funded_amount, pools[pool_id], 0, 0)]
  /\ UNCHANGED <<pools, practices, claims>>
  /\ FundRaceUnchanged

\* ledger.py 106: the SELECT of the claim.
SelectClaim(p) ==
  /\ sessions[p].pc = "pool"
  /\ sessions' = [sessions EXCEPT ![p] =
       [@ EXCEPT !.pc = "claim", !.claim = claims[sessions[p].claim_id]]]
  /\ UNCHANGED <<pools, practices, claims>>
  /\ FundRaceUnchanged

\* The rows as the session of process p holds them after its three SELECTs.
FundSessionDb(p, practice) ==
  Db([pools EXCEPT ![sessions[p].pool_id] = sessions[p].pool],
     [practices EXCEPT ![sessions[p].claim.practice_id] = practice],
     [claims EXCEPT ![sessions[p].claim_id] = sessions[p].claim])

\* ledger.py 107-153: the SELECT of the practice, the checks, and the new values set on
\* the three objects. A raise ends the session_scope with a rollback.
SelectPractice(p) ==
  /\ sessions[p].pc = "claim"
  /\ \E r \in {fund_claim_atomic(FundSessionDb(p, practices[sessions[p].claim.practice_id]),
                                 sessions[p].pool_id, sessions[p].claim_id,
                                 sessions[p].funded_amount)} :
        sessions' = [sessions EXCEPT ![p] =
          IF r.outcome # "ok" THEN DoneSession(sessions[p].claim_id, r.outcome, 0, "raise")
          ELSE [@ EXCEPT !.pc = "dirty",
                         !.pool = r.db.pools[sessions[p].pool_id],
                         !.claim = r.db.claims[sessions[p].claim_id],
                         !.practice = r.db.practices[sessions[p].claim.practice_id]]]
  /\ UNCHANGED <<pools, practices, claims>>
  /\ FundRaceUnchanged

\* The UPDATEs of the flush: the columns the body changed, set to the objects' values.
FlushFund(p) ==
  /\ pools' = [pools EXCEPT ![sessions[p].pool_id] =
       [@ EXCEPT !.available_capital = sessions[p].pool.available_capital,
                 !.capital_allocated = sessions[p].pool.capital_allocated,
                 !.capital_pending_settlement = sessions[p].pool.capital_pending_settlement]]
  /\ practices' = [practices EXCEPT ![sessions[p].claim.practice_id] =
       [@ EXCEPT !.current_exposure = sessions[p].practice.current_exposure]]
  /\ claims' = [claims EXCEPT ![sessions[p].claim_id] =
       [@ EXCEPT !.funded_amount = sessions[p].claim.funded_amount,
                 !.status = sessions[p].claim.status,
                 !.decline_reason_code = sessions[p].claim.decline_reason_code]]

\* db.py 26: session.commit() when the body returned.
CommitFund(p) ==
  /\ sessions[p].pc = "dirty"
  /\ FlushFund(p)
  /\ sessions' = [sessions EXCEPT ![p] = DoneSession(sessions[p].claim_id, "ok", 0, "commit")]
  /\ FundRaceUnchanged

\* POST /claims/{claim_id}/underwrite as a whole request, between the fund calls.
UnderwriteBetween(cid, pid) ==
  /\ \A p \in Procs : sessions[p].pc = "idle"
  /\ Underwrite(cid, pid)

\* The claims of one practice.
FundRaceClaims == {"CLM1", "CLM2"}

\* Two processes calling fund_claim_atomic for claims of one practice on one pool, each
\* in a session_scope of its own.
FundRaceNext ==
  \/ \E p \in Procs, c \in FundRaceClaims, f \in 0..MaxAmount : SelectPool(p, c, "POOL", f)
  \/ \E p \in Procs : SelectClaim(p)
  \/ \E p \in Procs : SelectPractice(p)
  \/ \E p \in Procs : CommitFund(p)
  \/ \E p \in Procs : EndRequest(p)
  \/ \E c \in FundRaceClaims : UnderwriteBetween(c, "POOL")

FundRaceSpec == Init /\ [][FundRaceNext]_vars

\* The orchestrator's operations alone, with the resolve endpoint re-approving a claim
\* between attempts: the payment endpoints without the cancel endpoint.
OrchestratorNext ==
  \/ \E c \in PayClaimIds : CreateCall(c)
  \/ \E i \in Uuids, d \in Draws : SendCall(i, d)
  \/ \E i \in Uuids : ConfirmCall(i)
  \/ \E i \in Uuids, f \in DrawnFailures, m \in GivenMessages : FailCall(i, f, m)
  \/ \E c \in PayClaimIds, d \in Draws : ProcessEndpoint(c, d)
  \/ \E i \in Uuids, d \in Draws : RetryEndpoint(i, d)
  \/ \E a \in 0..MaxSeedAmount : SeedCapital(a)
  \/ \E i \in Uuids : ResolveEndpoint(i)
  \/ ProviderReset

OrchestratorSpec == Init /\ [][OrchestratorNext]_vars

\* The orchestrator's create, send, confirm and fail, and the claim transition endpoint,
\* request after request.
PayTransitionNext ==
  \/ \E c \in PayClaimIds : CreateCall(c)
  \/ \E i \in Uuids, d \in Draws : SendCall(i, d)
  \/ \E i \in Uuids : ConfirmCall(i)
  \/ \E i \in Uuids, f \in DrawnFailures, m \in GivenMessages : FailCall(i, f, m)
  \/ \E c \in PayClaimIds, t \in ClaimStatusV2 : TransitionClaim(c, t)

PayTransitionSpec == Init /\ [][PayTransitionNext]_vars

\* ======================================================== the properties
PoolOk(pool) ==
  /\ pool.available_capital = pool.total_capital - pool.capital_allocated + pool.capital_returned
  /\ pool.capital_pending_settlement <= pool.capital_allocated
  /\ pool.available_capital >= 0
  /\ pool.capital_allocated >= 0
  /\ pool.capital_pending_settlement >= 0
  /\ pool.capital_returned >= 0
  /\ pool.total_capital >= 0
  /\ pool.total_days_outstanding >= 0
  /\ pool.num_settled_claims >= 0

PracticeOk(practice) ==
  0 <= practice.current_exposure /\ practice.current_exposure <= practice.max_exposure_limit

PracticeOf(c) == claims[c].practice_id
DbUnchanged == UNCHANGED <<pools, practices, claims>>
LedgerOps == {"fund", "settle", "fund_endpoint", "settle_endpoint", "simulate", "simulate_main"}

\* C1: after every call, in any sequence of fund and settle calls on pools that start
\* with available_capital = total_capital and no allocation, every pool has
\* available_capital = total_capital - capital_allocated + capital_returned,
\* capital_pending_settlement <= capital_allocated and no negative counter.
C1_PoolInvariant == \A p \in PoolIds : PoolOk(pools[p])

\* A settle call has been made on a pool that has capital allocated to funded claims.
C1_Witness ==
  /\ last.op = "settle"
  /\ \E p \in PoolIds : pools[p].capital_allocated > 0 /\ pools[p].capital_pending_settlement > 0

\* C2 (as claimed): settling a funded claim of principal p > 0 with an amount a >= p,
\* against a pool that holds the principal as pending settlement, completes without
\* raising, leaves the claim reimbursed, lowers pending, allocated and the practice's
\* exposure by p and raises available_capital by exactly p.
C2_SettleInFull ==
  [][\A c \in ClaimIds, p \in PoolIds, d \in Days, a \in 0..MaxAmount :
       LET principal == claims[c].funded_amount
       IN (/\ last'.op = "settle" /\ last'.cid = c
           /\ SettleCall(c, p, d, a)
           /\ claims[c].status = "funded" /\ principal > 0 /\ a >= principal
           /\ PoolOk(pools[p]) /\ PracticeOk(practices[PracticeOf(c)])
           /\ principal <= pools[p].capital_pending_settlement)
          => /\ last'.outcome = "ok"
             /\ claims'[c].status = "reimbursed"
             /\ pools'[p].capital_pending_settlement = pools[p].capital_pending_settlement - principal
             /\ pools'[p].capital_allocated = pools[p].capital_allocated - principal
             /\ pools'[p].available_capital = pools[p].available_capital + principal
             /\ practices'[PracticeOf(c)].current_exposure
                  = practices[PracticeOf(c)].current_exposure - principal]_vars

\* C3 (as claimed): settling a funded claim of principal p > 0 with an amount a,
\* 0 <= a < p, completes, sets the claim to exception, raises available_capital and
\* capital_returned by a and lowers pending, allocated and exposure by p.
C3_SettleUnderpaid ==
  [][\A c \in ClaimIds, p \in PoolIds, d \in Days, a \in 0..MaxAmount :
       LET principal == claims[c].funded_amount
       IN (/\ last'.op = "settle" /\ last'.cid = c
           /\ SettleCall(c, p, d, a)
           /\ claims[c].status = "funded" /\ principal > 0 /\ a < principal
           /\ PoolOk(pools[p]) /\ PracticeOk(practices[PracticeOf(c)])
           /\ principal <= pools[p].capital_pending_settlement)
          => /\ last'.outcome = "ok"
             /\ claims'[c].status = "exception"
             /\ pools'[p].available_capital = pools[p].available_capital + Min(principal, a)
             /\ pools'[p].capital_returned = pools[p].capital_returned + Min(principal, a)
             /\ pools'[p].capital_pending_settlement = pools[p].capital_pending_settlement - principal
             /\ pools'[p].capital_allocated = pools[p].capital_allocated - principal
             /\ practices'[PracticeOf(c)].current_exposure
                  = practices[PracticeOf(c)].current_exposure - principal]_vars

\* C4: after every fund or settle call, over any number of claims of a practice,
\* 0 <= current_exposure <= max_exposure_limit for every practice.
C4_ExposureBound == \A pr \in PracticeIds : PracticeOk(practices[pr])

\* Two claims of one practice are funded and a call has just been made on one of them.
C4_Witness ==
  /\ last.op \in {"fund", "settle"}
  /\ \E c1, c2 \in ClaimIds :
       /\ c1 # c2 /\ PracticeOf(c1) = PracticeOf(c2)
       /\ claims[c1].status = "funded" /\ claims[c2].status = "funded"
       /\ practices[PracticeOf(c1)].current_exposure = claims[c1].funded_amount + claims[c2].funded_amount

\* The effect of a successful fund of amount f on claim c from pool p, every field
\* spelled out, and nothing else changed.
FundEffect(c, p, f) ==
  /\ pools'[p].available_capital = pools[p].available_capital - f
  /\ pools'[p].capital_allocated = pools[p].capital_allocated + f
  /\ pools'[p].capital_pending_settlement = pools[p].capital_pending_settlement + f
  /\ pools'[p].total_capital = pools[p].total_capital
  /\ pools'[p].capital_returned = pools[p].capital_returned
  /\ pools'[p].total_days_outstanding = pools[p].total_days_outstanding
  /\ pools'[p].num_settled_claims = pools[p].num_settled_claims
  /\ \A q \in PoolIds \ {p} : pools'[q] = pools[q]
  /\ practices'[PracticeOf(c)].current_exposure = practices[PracticeOf(c)].current_exposure + f
  /\ practices'[PracticeOf(c)].max_exposure_limit = practices[PracticeOf(c)].max_exposure_limit
  /\ \A q \in PracticeIds \ {PracticeOf(c)} : practices'[q] = practices[q]
  /\ claims'[c].funded_amount = f
  /\ claims'[c].status = "funded"
  /\ claims'[c].decline_reason_code = "None"
  /\ claims'[c].practice_id = claims[c].practice_id
  /\ claims'[c].expected_allowed_amount = claims[c].expected_allowed_amount
  /\ \A q \in ClaimIds \ {c} : claims'[q] = claims[q]

\* C5: a fund_claim_atomic call with amount f that succeeds, made directly or by the
\* fund endpoint, has exactly the effect FundEffect.
C5_FundEffect ==
  [][/\ \A c \in ClaimIds, p \in PoolIds, f \in 0..MaxAmount :
          (last'.op = "fund" /\ last'.cid = c /\ last'.outcome = "ok" /\ FundCall(c, p, f))
            => FundEffect(c, p, f)
     /\ \A c \in ClaimIds, p \in PoolIds :
          (last'.op = "fund_endpoint" /\ last'.cid = c /\ last'.outcome = "ok" /\ FundEndpoint(c, p))
            => FundEffect(c, p, claims[c].expected_allowed_amount)]_vars

\* A claim has just been funded with an amount other than its expected allowed amount,
\* while another claim is funded.
C5_Witness ==
  /\ last.op = "fund" /\ last.outcome = "ok"
  /\ claims[last.cid].status = "funded"
  /\ claims[last.cid].funded_amount # claims[last.cid].expected_allowed_amount
  /\ \E c \in ClaimIds \ {last.cid} : claims[c].status = "funded"

\* C6: fund_claim_atomic (amount > 0) on a claim that is already funded fails with
\* LedgerError and changes no pool, practice or claim; a funded claim's funded_amount
\* never changes again.
C6_NoDoubleFunding ==
  [][/\ \A c \in ClaimIds, p \in PoolIds, f \in 1..MaxAmount :
          (last'.op = "fund" /\ last'.cid = c /\ claims[c].status = "funded" /\ FundCall(c, p, f))
            => last'.outcome = "LedgerError" /\ DbUnchanged
     /\ \A c \in ClaimIds :
          claims[c].status = "funded" => claims'[c].funded_amount = claims[c].funded_amount]_vars

\* fund has just been refused on a claim that is funded.
C6_Witness ==
  /\ last.op = "fund" /\ last.outcome = "LedgerError" /\ last.msg = "Invalid status transition"
  /\ claims[last.cid].status = "funded" /\ claims[last.cid].funded_amount > 0

\* C7: with a legal transition to funded, an amount above the remaining exposure limit
\* raises LedgerError("Insufficient remaining practice exposure limit"); an amount
\* within it but above the pool's available capital raises LedgerError("Insufficient
\* pool available capital"); an illegal transition raises LedgerError; in all three
\* cases pool, practice and claim are unchanged.
C7_FundRejections ==
  [][\A c \in ClaimIds, p \in PoolIds, f \in 1..MaxAmount :
       LET legal == validate_status_transition(claims[c].status, "funded") = "ok"
           remaining == Max(0, practices[PracticeOf(c)].max_exposure_limit
                                 - practices[PracticeOf(c)].current_exposure)
       IN (last'.op = "fund" /\ last'.cid = c /\ FundCall(c, p, f)) =>
            /\ (legal /\ f > remaining) =>
                 /\ last'.outcome = "LedgerError"
                 /\ last'.msg = "Insufficient remaining practice exposure limit"
                 /\ DbUnchanged
            /\ (legal /\ f <= remaining /\ f > pools[p].available_capital) =>
                 /\ last'.outcome = "LedgerError"
                 /\ last'.msg = "Insufficient pool available capital"
                 /\ DbUnchanged
            /\ ~legal => last'.outcome = "LedgerError" /\ DbUnchanged]_vars

\* fund has just been refused for lack of pool capital on a claim within its limit.
C7_Witness ==
  /\ last.op = "fund" /\ last.outcome = "LedgerError"
  /\ last.msg = "Insufficient pool available capital"
  /\ claims[last.cid].status = "underwriting"

\* fund has just been refused for lack of remaining exposure.
C7_WitnessExposure ==
  /\ last.op = "fund" /\ last.outcome = "LedgerError"
  /\ last.msg = "Insufficient remaining practice exposure limit"
  /\ practices[PracticeOf(last.cid)].current_exposure > 0

\* C8: when a fund or settle call raises, in a session of its own, in its endpoint or
\* in the simulate pass, no write is visible afterwards: pools, practices and claims
\* are what they were; and fund_claim_atomic, whose errors the simulate pass catches
\* and survives, has written nothing to the session when it raises.
C8_NoPartialWrites ==
  /\ [][(last'.op \in LedgerOps /\ last'.outcome # "ok") => DbUnchanged]_vars
  /\ [](\A c \in ClaimIds, p \in PoolIds, f \in 0..MaxAmount :
          LET r == fund_claim_atomic(CurrentDb, p, c, f)
          IN r.outcome # "ok" => r.db = CurrentDb)

\* settle has just raised after it had written to the pool, the practice and the claim.
C8_Witness ==
  /\ last.op = "settle" /\ last.outcome = "InvariantViolationError"
  /\ last.msg = "Capital pool invariant violated: available_capital"
  /\ claims[last.cid].status = "funded"

\* C9 (as claimed): an invariant violation raised by fund or settle is never caught by
\* a caller's handler for recoverable errors: the endpoints do not answer it with the
\* 400 of a business rejection and the simulate pass does not swallow it.
C9_TwoChannels ==
  /\ (last.op \in {"fund_endpoint", "settle_endpoint"} /\ last.outcome = "InvariantViolationError")
       => last.http # 400
  /\ "InvariantViolationError" \notin last.swallowed

\* The CAPITAL_CASH debit entries of the tables `db` that carry the claim's id.
CashDebitsOfClaim(db, claim_id) ==
  {e \in db.entries : /\ e.account = Account("CAPITAL_CASH", 0)
                      /\ e.direction = "DEBIT"
                      /\ e.claim_id = claim_id}

\* The CAPITAL_CASH debit entries tagged to the payment intent `payment_id`.
CashDebitsOfIntent(db, payment_id) ==
  {e \in db.entries : /\ e.account = Account("CAPITAL_CASH", 0)
                      /\ e.direction = "DEBIT"
                      /\ e.related_type = "PAYMENT_INTENT"
                      /\ e.related_id = payment_id}

\* create_payment_intent called twice in a row for the claim, from the current tables.
CreateTwice(claim_id) ==
  Let1(create_payment_intent(CurrentPDb, CurrentPDb, claim_id),
       LAMBDA first :
         [first |-> first, second |-> create_payment_intent(first.db, first.db, claim_id)])

\* C10 (as claimed): for an APPROVED claim on which create_payment_intent returns, a
\* second call returns the same intent id, the intent's idempotency key is
\* "claim:{claim id}:payment:v1", and after both calls exactly one CAPITAL_CASH debit
\* entry exists for that claim.
C10_OneDebitPerClaim ==
  \A c \in PayClaimIds :
    claims_v2[c].status = "APPROVED" =>
      \A t \in {CreateTwice(c)} :
        t.first.outcome = "ok" =>
          /\ t.second.outcome = "ok"
          /\ t.second.ret = t.first.ret
          /\ IntentById(t.second.db, t.second.ret).idempotency_key = <<"claim", c, "payment", "v1">>
          /\ Cardinality(CashDebitsOfClaim(t.second.db, c)) = 1

\* C10 (amended): for an APPROVED claim on which create_payment_intent returns, a
\* second call returns the same intent id and changes no table, the intent's
\* idempotency key is "claim:{claim id}:payment:v1", the two calls together add one
\* CAPITAL_CASH debit entry when the claim had no intent and none when it had one, and
\* exactly one CAPITAL_CASH debit entry is tagged to the returned intent.
C10_OneDebitPerIntent ==
  \A c \in PayClaimIds :
    claims_v2[c].status = "APPROVED" =>
      \A t \in {CreateTwice(c)} :
        t.first.outcome = "ok" =>
          /\ t.second.outcome = "ok"
          /\ t.second.ret = t.first.ret
          /\ t.second.db = t.first.db
          /\ IntentById(t.second.db, t.second.ret).idempotency_key = <<"claim", c, "payment", "v1">>
          /\ IntentById(t.second.db, t.second.ret).claim_id = c
          /\ Cardinality(CashDebitsOfClaim(t.second.db, c))
               = Cardinality(CashDebitsOfClaim(CurrentPDb, c))
                   + (IF IntentByClaim(CurrentPDb, c) = NoIntent THEN 1 ELSE 0)
          /\ Cardinality(CashDebitsOfIntent(t.second.db, t.second.ret)) = 1

\* create_payment_intent has just returned, for the second time, the QUEUED intent of an
\* APPROVED claim that now has its one reservation.
C10_Witness ==
  /\ plast.op = "create" /\ plast.outcome = "ok" /\ plast.existed
  /\ claims_v2[plast.arg].status = "APPROVED"
  /\ IntentById(CurrentPDb, plast.ret).status = "QUEUED"
  /\ Cardinality(CashDebitsOfIntent(CurrentPDb, plast.ret)) = 1

\* reserve_funds(intent, a) from the current tables, then release_reservation(intent).
ReserveThenRelease(payment_intent) ==
  Let1(reserve_funds(CurrentPDb, payment_intent, payment_intent.amount_cents),
       LAMBDA reserved :
         [reserved |-> reserved,
          released |-> IF reserved.outcome = "ok"
                         THEN release_reservation(reserved.db, payment_intent)
                         ELSE reserved])

\* C11 (as claimed): after reserve_funds(intent, a) followed by
\* release_reservation(intent), compute_balance(CAPITAL_CASH) and
\* compute_balance(PAYMENT_CLEARING), with the default filter, equal their values from
\* before the reservation, and no entry of the intent is PENDING.
C11_ReleaseRestores ==
  \A c \in PayClaimIds, a \in 1..Claim2Amount :
    \A t \in {ReserveThenRelease(FreshIntent(CurrentPDb, c, a))} :
      t.reserved.outcome = "ok" =>
        /\ t.released.outcome = "ok"
        /\ compute_balance(t.released.db, CashAccount, "None")
             = compute_balance(CurrentPDb, CashAccount, "None")
        /\ compute_balance(t.released.db, ClearingAccount, "None")
             = compute_balance(CurrentPDb, ClearingAccount, "None")
        /\ \A e \in EntriesOfIntent(t.released.db, uuid4(CurrentPDb)) : e.status # "PENDING"

\* What holds of the code instead: the release leaves CAPITAL_CASH higher by a and
\* PAYMENT_CLEARING lower by a than before the reservation.
C11_ReleaseOvershoots ==
  \A c \in PayClaimIds, a \in 1..Claim2Amount :
    \A t \in {ReserveThenRelease(FreshIntent(CurrentPDb, c, a))} :
      t.reserved.outcome = "ok" =>
        /\ t.released.outcome = "ok"
        /\ compute_balance(t.released.db, CashAccount, "None")
             = compute_balance(CurrentPDb, CashAccount, "None") + a
        /\ compute_balance(t.released.db, ClearingAccount, "None")
             = compute_balance(CurrentPDb, ClearingAccount, "None") - a
        /\ \A e \in EntriesOfIntent(t.released.db, uuid4(CurrentPDb)) : e.status # "PENDING"

\* reserve_funds(intent, a) from the current tables, then the ledger's confirm_payment(intent).
ReserveThenConfirm(payment_intent) ==
  Let1(reserve_funds(CurrentPDb, payment_intent, payment_intent.amount_cents),
       LAMBDA reserved :
         [reserved |-> reserved,
          confirmed |-> IF reserved.outcome = "ok"
                          THEN ledger_confirm_payment(reserved.db, payment_intent)
                          ELSE reserved])

\* C12: after reserve_funds(intent, a) followed by the ledger's confirm_payment(intent),
\* both reservation entries are POSTED, the CAPITAL_CASH balance is lower by exactly a
\* than before the reservation, the PAYMENT_CLEARING balance is what it was, and the
\* PRACTICE_PAYABLE balance of the intent's practice is higher by exactly a.
C12_ConfirmSettles ==
  \A c \in PayClaimIds, a \in 1..Claim2Amount :
    \A pi \in {FreshIntent(CurrentPDb, c, a)} :
      \A t \in {ReserveThenConfirm(pi)} :
        t.reserved.outcome = "ok" =>
          /\ t.confirmed.outcome = "ok"
          /\ Cardinality(ReserveEntries(t.confirmed.db, pi)) = 2
          /\ \A e \in ReserveEntries(t.confirmed.db, pi) : e.status = "POSTED"
          /\ compute_balance(t.confirmed.db, CashAccount, "None")
               = compute_balance(CurrentPDb, CashAccount, "None") - a
          /\ compute_balance(t.confirmed.db, ClearingAccount, "None")
               = compute_balance(CurrentPDb, ClearingAccount, "None")
          /\ compute_balance(t.confirmed.db, Account("PRACTICE_PAYABLE", pi.practice_id), "None")
               = compute_balance(CurrentPDb, Account("PRACTICE_PAYABLE", pi.practice_id), "None") + a

\* A payment has just been confirmed: its reservation is POSTED and its practice is
\* owed the amount, while a reservation can still be made for the other claim.
C12_Witness ==
  /\ plast.op = "confirm" /\ plast.outcome = "ok"
  /\ \E pi \in payment_intents :
       /\ pi.id = plast.ret /\ pi.status = "CONFIRMED"
       /\ \A e \in ReserveEntries(CurrentPDb, pi) : e.status = "POSTED"
       /\ compute_balance(CurrentPDb, Account("PRACTICE_PAYABLE", pi.practice_id), "None")
            >= pi.amount_cents
  /\ \E c \in PayClaimIds :
       ReserveThenConfirm(FreshIntent(CurrentPDb, c, 1)).reserved.outcome = "ok"

\* The entry reserve_funds posts on one side for the intent.
ReserveEntry(payment_intent, a, account, direction, side) ==
  [account |-> account, direction |-> direction, amount_cents |-> a,
   related_type |-> "PAYMENT_INTENT", related_id |-> payment_intent.id,
   claim_id |-> payment_intent.claim_id, status |-> "PENDING",
   idempotency_key |-> EntryKey(payment_intent, "reserve", side)]

\* An intent for the claim whose id is one above the fresh one: the next reservation.
NextIntent(db, claim_id, a) == [FreshIntent(db, claim_id, a) EXCEPT !.id = @ + 1]

\* C13: reserve_funds(intent, a), a > 0, on an intent without entries: when
\* compute_balance(CAPITAL_CASH) < a it raises InsufficientFundsError and posts
\* nothing; otherwise it adds exactly one PENDING DEBIT of a on CAPITAL_CASH and one
\* PENDING CREDIT of a on PAYMENT_CLEARING, both tagged to the intent, and the
\* CAPITAL_CASH balance that a later reservation is checked against is lower by a.
C13_ReserveFunds ==
  \A c \in PayClaimIds, a \in 1..Claim2Amount :
    \A pi \in {FreshIntent(CurrentPDb, c, a)} :
      \A r \in {reserve_funds(CurrentPDb, pi, a)} :
        LET before == compute_balance(CurrentPDb, CashAccount, "None")
        IN /\ before < a => r.outcome = "InsufficientFundsError" /\ r.db = CurrentPDb
           /\ before >= a =>
                /\ r.outcome = "ok"
                /\ r.db.entries = CurrentPDb.entries \cup
                     {ReserveEntry(pi, a, CashAccount, "DEBIT", "debit"),
                      ReserveEntry(pi, a, ClearingAccount, "CREDIT", "credit")}
                /\ Cardinality(r.db.entries) = Cardinality(CurrentPDb.entries) + 2
                /\ r.db.claims = CurrentPDb.claims /\ r.db.intents = CurrentPDb.intents
                /\ r.db.accounts = CurrentPDb.accounts
                /\ compute_balance(r.db, CashAccount, "None") = before - a
                /\ \A c2 \in PayClaimIds, b \in 1..Claim2Amount :
                     (reserve_funds(r.db, NextIntent(CurrentPDb, c2, b), b).outcome
                        = "InsufficientFundsError") <=> (before - a < b)

\* A reservation has just been refused although the POSTED entries alone would cover
\* it: the cash is held by another intent's PENDING reservation.
C13_Witness ==
  /\ plast.op = "create" /\ plast.outcome = "InsufficientFundsError"
  /\ compute_balance(CurrentPDb, CashAccount, "POSTED") >= claims_v2[plast.arg].amount_cents
  /\ compute_balance(CurrentPDb, CashAccount, "None") < claims_v2[plast.arg].amount_cents
  /\ \E e \in ledger_entries : e.status = "PENDING" /\ e.account = CashAccount

\* The accounts a posting may name: those of the tables and the practices' payables.
PostingAccounts(db) == db.accounts \cup {Account("PRACTICE_PAYABLE", db.claims[c].practice_id) : c \in PayClaimIds}

\* The first postings tried: <<account, direction, amount, status>>.
FirstPostings ==
  {<<CashAccount, "DEBIT", 1, "PENDING">>, <<ClearingAccount, "CREDIT", Claim2Amount, "POSTED">>}

\* create_entry under a key not in the journal, then again under the same key.
CreateEntryTwice(first, account, direction, amount_cents, status) ==
  LET key == <<"payment", uuid4(CurrentPDb), "reserve", "debit">>
  IN Let1(create_entry(CurrentPDb, first[1], first[2], first[3], "PAYMENT_INTENT",
                       uuid4(CurrentPDb), key, 1, first[4]),
          LAMBDA made :
            [first |-> made,
             second |-> create_entry(made.db, account, direction, amount_cents, "PAYMENT_INTENT",
                                     uuid4(CurrentPDb), key, 1, status)])

\* C14: a second create_entry call (amount > 0) under an idempotency key that exists
\* raises DuplicateEntryError, adds no entry and leaves every account's balance at its
\* value after the first call, whatever account, direction, amount and status it carries.
C14_DuplicateEntry ==
  \A first \in FirstPostings, acc \in PostingAccounts(CurrentPDb), dir \in LedgerEntryDirection,
     a \in 1..Claim2Amount, st \in LedgerEntryStatus :
    \A t \in {CreateEntryTwice(first, acc, dir, a, st)} :
      /\ t.first.outcome = "ok"
      /\ t.first.db.entries # CurrentPDb.entries
      /\ t.second.outcome = "DuplicateEntryError"
      /\ t.second.db.entries = t.first.db.entries
      /\ \A x \in PostingAccounts(CurrentPDb) :
           compute_balance(t.second.db, x, "None") = compute_balance(t.first.db, x, "None")

\* A posting has just been run again under the key of an entry of the journal that
\* belongs to a payment intent.
C14_Witness ==
  /\ plast.op = "create_entry" /\ plast.outcome = "DuplicateEntryError"
  /\ \E e \in ledger_entries : e.related_type = "PAYMENT_INTENT"

LedgerProtocolOps == {"reserve_funds", "confirm_payment", "release_reservation"}

\* C15 (as claimed): re-invoking reserve_funds, confirm_payment or release_reservation
\* for an intent that already has that operation's entries posts nothing new, changes
\* no balance and no entry status, and is reported as DuplicateEntryError, the error
\* callers take as "already done".
C15_ReinvokeIsDuplicate ==
  [][(plast'.op \in LedgerProtocolOps /\ plast'.existed) =>
       /\ plast'.outcome = "DuplicateEntryError"
       /\ ledger_entries' = ledger_entries
       /\ ledger_accounts' = ledger_accounts]_vars

\* What holds of the code: the re-invocation posts nothing and changes no entry; confirm
\* and release report DuplicateEntryError; reserve_funds reports it only when the cash
\* left covers the amount once more, and InsufficientFundsError otherwise.
C15_ReinvokePostsNothing ==
  [][(plast'.op \in LedgerProtocolOps /\ plast'.existed) =>
       /\ ledger_entries' = ledger_entries
       /\ ledger_accounts' = ledger_accounts
       /\ plast'.op # "reserve_funds" => plast'.outcome = "DuplicateEntryError"
       /\ plast'.op = "reserve_funds" =>
            plast'.outcome =
              IF compute_balance(CurrentPDb, CashAccount, "None")
                   >= LedgerIntent(plast'.arg).amount_cents
                THEN "DuplicateEntryError" ELSE "InsufficientFundsError"]_vars

\* reserve_funds has just been re-invoked for an intent that holds its reservation and
\* was refused for lack of funds.
C15_ReserveAgainRefused ==
  /\ plast.op = "reserve_funds" /\ plast.existed /\ plast.outcome = "InsufficientFundsError"
  /\ \A e \in ReserveEntries(CurrentPDb, LedgerIntent(plast.arg)) : e.status = "PENDING"

\* The payment intents of the claim in the committed tables.
IntentsOfClaim(claim_id) == {i \in payment_intents : i.claim_id = claim_id}

EntriesOfClaim(db, claim_id) == {e \in db.entries : e.claim_id = claim_id}

\* C17 (as claimed): create_payment_intent on a claim that is not APPROVED raises
\* InvalidClaimStateError, and on a fresh creation whose reservation fails it raises
\* InsufficientFundsError; in both cases no PaymentIntent and no ledger entry of the
\* claim exist afterwards and every balance is unchanged.
C17_NothingExists ==
  \A c \in PayClaimIds :
    \A r \in {create_payment_intent(CurrentPDb, CurrentPDb, c)} :
      LET fresh == IntentByClaim(CurrentPDb, c) = NoIntent
          short == compute_balance(CurrentPDb, CashAccount, "None") < claims_v2[c].amount_cents
      IN /\ claims_v2[c].status # "APPROVED" => r.outcome = "InvalidClaimStateError"
         /\ (claims_v2[c].status = "APPROVED" /\ fresh /\ short) =>
              r.outcome = "InsufficientFundsError"
         /\ r.outcome \in {"InvalidClaimStateError", "InsufficientFundsError"} =>
              /\ IntentByClaim(r.db, c) = NoIntent
              /\ EntriesOfClaim(r.db, c) = {}
              /\ \A x \in PostingAccounts(CurrentPDb) :
                   compute_balance(r.db, x, "None") = compute_balance(CurrentPDb, x, "None")

\* C17 (amended): the same two errors; in both cases the session holds exactly the rows
\* it held before the call - the call leaves no PaymentIntent and no ledger entry of
\* its own - and every balance is unchanged; after the InsufficientFundsError of a
\* fresh creation the claim has no PaymentIntent.
C17_FailureLeavesNothing ==
  \A c \in PayClaimIds :
    \A r \in {create_payment_intent(CurrentPDb, CurrentPDb, c)} :
      LET fresh == IntentByClaim(CurrentPDb, c) = NoIntent
          short == compute_balance(CurrentPDb, CashAccount, "None") < claims_v2[c].amount_cents
      IN /\ claims_v2[c].status # "APPROVED" => r.outcome = "InvalidClaimStateError"
         /\ (claims_v2[c].status = "APPROVED" /\ fresh /\ short) =>
              r.outcome = "InsufficientFundsError"
         /\ r.outcome \in {"InvalidClaimStateError", "InsufficientFundsError"} =>
              /\ r.db = CurrentPDb
              /\ \A x \in PostingAccounts(CurrentPDb) :
                   compute_balance(r.db, x, "None") = compute_balance(CurrentPDb, x, "None")
         /\ r.outcome = "InsufficientFundsError" =>
              /\ IntentByClaim(r.db, c) = NoIntent
              /\ \A e \in r.db.entries : e.related_id # uuid4(CurrentPDb)

\* A fresh creation has just failed for lack of funds, on a claim that has no intent.
C17_Witness ==
  /\ plast.op = "create" /\ plast.outcome = "InsufficientFundsError"
  /\ claims_v2[plast.arg].status = "APPROVED"
  /\ IntentsOfClaim(plast.arg) = {}

\* A creation has just been refused on a claim that is not APPROVED and has its intent.
C17_WitnessNotApproved ==
  /\ plast.op = "create" /\ plast.outcome = "InvalidClaimStateError"
  /\ IntentsOfClaim(plast.arg) # {}

\* retry_failed_payment on the intent, from the current tables, with the provider's draw.
RetryOf(payment_intent, draw) ==
  retry_failed_payment(CurrentPDb, CurrentPDb, provider_payments, payment_intent, draw)

\* C18 (as claimed): retry_failed_payment on a FAILED intent whose claim was APPROVED
\* when the payment failed (the claim is now PAYMENT_EXCEPTION) returns a new intent of
\* the same claim with a different id, the failed intent is deleted and the claim's
\* exception flag and code were cleared for the new attempt; on an intent that is not
\* FAILED it raises PaymentError and changes nothing.
C18_RetryCreatesNew ==
  \A i \in payment_intents, d \in Draws :
    \A r \in {RetryOf(i, d)} :
      /\ (i.status = "FAILED" /\ claims_v2[i.claim_id].status = "PAYMENT_EXCEPTION") =>
           /\ r.outcome = "ok"
           /\ r.ret # i.id
           /\ i \notin r.db.intents
           /\ IntentById(r.db, r.ret).claim_id = i.claim_id
      /\ i.status # "FAILED" => r.outcome = "PaymentError" /\ r.db = CurrentPDb

\* What holds of the code: while the claim is PAYMENT_EXCEPTION the retry raises
\* InvalidClaimStateError from create_payment_intent; once the claim is APPROVED again
\* and funds suffice it returns a new intent of the claim with a different id and the
\* failed intent is gone.
C18_RetryNeedsApproved ==
  \A i \in payment_intents, d \in Draws :
    \A r \in {RetryOf(i, d)} :
      /\ (i.status = "FAILED" /\ claims_v2[i.claim_id].status # "APPROVED") =>
           r.outcome = "InvalidClaimStateError"
      /\ (i.status = "FAILED" /\ claims_v2[i.claim_id].status = "APPROVED") =>
           \/ r.outcome = "InsufficientFundsError"
           \/ /\ r.outcome = "ok"
              /\ r.ret # i.id
              /\ i \notin r.db.intents
              /\ IntentById(r.db, r.ret).claim_id = i.claim_id
      /\ i.status # "FAILED" => r.outcome = "PaymentError" /\ r.db = CurrentPDb

\* A retry has just been refused on a claim that is in PAYMENT_EXCEPTION.
C18_RetryRefused ==
  /\ plast.op = "retry" /\ plast.outcome = "InvalidClaimStateError" /\ plast.http = 400
  /\ \E i \in payment_intents :
       i.id = plast.arg /\ i.status = "FAILED" /\ claims_v2[i.claim_id].status = "PAYMENT_EXCEPTION"

\* The idempotency keys of the ledger entries tagged to the payment intent.
EntryKeysOfIntent(db, payment_id) == {e.idempotency_key : e \in EntriesOfIntent(db, payment_id)}

\* The provider's answer was made for this call, not taken from its cache.
ProviderAskedAnew(r, payment_intent) ==
  /\ \A p \in provider_payments : p.idempotency_key # IntentById(r.db, r.ret).idempotency_key
  /\ \E p \in r.prov : p.idempotency_key = IntentById(r.db, r.ret).idempotency_key

\* C19 (as claimed): the intent that retry_failed_payment returns is independent of the
\* failed one: its payment idempotency key, the key handed to the provider, differs
\* from the failed intent's, its ledger-entry keys differ from the failed intent's, and
\* the provider's result for the failed attempt is not reused for the new attempt.
C19_RetryIndependent ==
  \A i \in payment_intents, d \in Draws :
    \A r \in {RetryOf(i, d)} :
      (i.status = "FAILED" /\ r.outcome = "ok") =>
        /\ IntentById(r.db, r.ret).idempotency_key # i.idempotency_key
        /\ EntryKeysOfIntent(r.db, r.ret) \cap EntryKeysOfIntent(CurrentPDb, i.id) = {}
        /\ EntryKeysOfIntent(r.db, r.ret) # {}
        /\ ProviderAskedAnew(r, i)

\* What holds of the code: the new intent has a new id and ledger-entry keys of its own,
\* but the same payment idempotency key as the failed one; while the provider holds a
\* result for that key, the new attempt gets that result whatever the provider would
\* answer now.
C19_RetrySameKey ==
  \A i \in payment_intents, d \in Draws :
    \A r \in {RetryOf(i, d)} :
      (i.status = "FAILED" /\ r.outcome = "ok") =>
        /\ r.ret # i.id
        /\ IntentById(r.db, r.ret).idempotency_key = i.idempotency_key
        /\ EntryKeysOfIntent(r.db, r.ret) \cap EntryKeysOfIntent(CurrentPDb, i.id) = {}
        /\ EntryKeysOfIntent(r.db, r.ret) # {}
        /\ (\E p \in provider_payments : p.idempotency_key = i.idempotency_key) =>
             /\ r.prov = provider_payments
             /\ IntentById(r.db, r.ret).provider_reference
                  = CachedResult(provider_payments, i.idempotency_key).provider_reference
             /\ IntentById(r.db, r.ret).status
                  = IF CachedResult(provider_payments, i.idempotency_key).status = "SUCCESS"
                      THEN "CONFIRMED" ELSE "FAILED"

\* A retry has just ended with a new intent that failed with the one result the
\* provider holds, the result recorded for the first attempt.
C19_RetryReusedFailure ==
  /\ plast.op = "retry" /\ plast.outcome = "ok"
  /\ \E i \in payment_intents :
       /\ i.id = plast.ret /\ i.status = "FAILED"
       /\ \E p \in provider_payments :
            p.idempotency_key = i.idempotency_key /\ p.provider_reference = i.provider_reference
       /\ Cardinality(provider_payments) = 1
       /\ i.id > 2

\* send_payment on the intent, from the current tables, with the provider's draw.
SendOf(payment_intent, draw) == send_payment(CurrentPDb, provider_payments, payment_intent, draw)

\* C20: send_payment on a SENT or CONFIRMED intent returns it with no table and no
\* provider record changed; on a FAILED intent it raises PaymentError and changes
\* nothing; on a QUEUED intent a provider SUCCESS changes the intent alone, to SENT with
\* the provider's reference and the sent timestamp, and a provider FAILED leaves it
\* FAILED with the provider's failure code, its reservation released and its claim
\* flagged, as the failure handler does.
C20_SendPayment ==
  \A i \in payment_intents, d \in Draws :
    \A r \in {SendOf(i, d)} :
      LET result == provider_send_payment(provider_payments, i.idempotency_key, d).result
          after == IntentById(r.db, i.id)
      IN /\ i.status \in {"SENT", "CONFIRMED"} =>
              /\ r.outcome = "ok" /\ r.ret = i.id
              /\ r.db = CurrentPDb /\ r.prov = provider_payments
         /\ i.status = "FAILED" =>
              /\ r.outcome = "PaymentError"
              /\ r.db = CurrentPDb /\ r.prov = provider_payments
         /\ (i.status = "QUEUED" /\ result.status = "SUCCESS") =>
              /\ r.outcome = "ok" /\ r.ret = i.id
              /\ after = [i EXCEPT !.status = "SENT", !.sent_at = "utcnow",
                                   !.provider_reference = result.provider_reference]
              /\ r.db = UpdateIntent(CurrentPDb, i, after)
              /\ result \in r.prov
         /\ (i.status = "QUEUED" /\ result.status = "FAILED") =>
              /\ r.outcome = "ok" /\ r.ret = i.id
              /\ after.status = "FAILED" /\ after.failure_code = result.failure_code
              /\ after.failure_message = result.failure_message
              /\ after.provider_reference = result.provider_reference
              /\ r.db = _handle_payment_failure(UpdateIntent(CurrentPDb, i, [i EXCEPT !.provider_reference = result.provider_reference, !.sent_at = "utcnow"]),
                                                [i EXCEPT !.provider_reference = result.provider_reference, !.sent_at = "utcnow"],
                                                result.failure_code, result.failure_message)
              /\ r.db.claims[i.claim_id].payment_exception
              /\ r.db.claims[i.claim_id].exception_code = result.failure_code
              /\ \A e \in EntriesOfIntent(r.db, i.id) : e.status # "PENDING"

\* send_payment has just moved a QUEUED intent to SENT, and another intent is FAILED.
C20_Witness ==
  /\ plast.op = "send" /\ plast.outcome = "ok"
  /\ \E i \in payment_intents :
       i.id = plast.ret /\ i.status = "SENT" /\ i.sent_at = "utcnow" /\ i.provider_reference # 0
  /\ \E i \in payment_intents : i.status = "FAILED"

\* send_payment has just been refused on a FAILED intent.
C20_WitnessRefused ==
  /\ plast.op = "send" /\ plast.outcome = "PaymentError"
  /\ \E i \in payment_intents : i.id = plast.arg /\ i.status = "FAILED"

\* The payments the provider executed under the key.
PaymentsUnderKey(prov, idempotency_key) == {r \in prov : r.idempotency_key = idempotency_key}

\* The provider called twice in a row with the same key, whatever it would draw.
SendTwice(idempotency_key, d1, d2) ==
  Let1(provider_send_payment(provider_payments, idempotency_key, d1),
       LAMBDA first :
         Let1(provider_send_payment(first.prov, idempotency_key, d2),
              LAMBDA second :
                /\ second.result = first.result
                /\ second.result.status = first.result.status
                /\ second.result.provider_reference = first.result.provider_reference
                /\ second.prov = first.prov
                /\ Cardinality(PaymentsUnderKey(second.prov, idempotency_key)) = 1))

\* The orchestrator sends the intent, and sends it again whatever came of it.
ResendIntent(payment_intent, d1, d2) ==
  Let1(SendOf(payment_intent, d1),
       LAMBDA first :
         Let1(send_payment(first.db, first.prov, IntentById(first.db, payment_intent.id), d2),
              LAMBDA second :
                /\ second.prov = first.prov
                /\ Cardinality(PaymentsUnderKey(second.prov, payment_intent.idempotency_key)) <= 1))

\* C21: the provider holds at most one executed payment per idempotency key; a call
\* with a key returns the result recorded under it (same status, same provider
\* reference) and executes no second payment; and an intent sent again after any
\* outcome of the first send leaves the provider with at most one payment under its key.
C21_ProviderIdempotent ==
  /\ \A r1 \in provider_payments, r2 \in provider_payments :
        r1.idempotency_key = r2.idempotency_key => r1 = r2
  /\ \A c \in PayClaimIds, d1 \in Draws, d2 \in Draws :
        SendTwice(generate_idempotency_key(c), d1, d2)
  /\ \A i \in payment_intents, d1 \in Draws, d2 \in Draws : ResendIntent(i, d1, d2)

\* send_payment was called again on an intent that is CONFIRMED, whose payment the
\* provider executed once, with success.
C21_Witness ==
  /\ plast.op = "send" /\ plast.outcome = "ok"
  /\ \E i \in payment_intents :
       /\ i.id = plast.arg /\ i.status = "CONFIRMED"
       /\ \E r \in provider_payments :
            /\ r.idempotency_key = i.idempotency_key /\ r.status = "SUCCESS"
            /\ r.provider_reference = i.provider_reference

\* One entry of the intent's settlement pair, as the ledger's confirm_payment posts it.
SettleEntry(payment_intent, account, direction, side) ==
  [account |-> account, direction |-> direction, amount_cents |-> payment_intent.amount_cents,
   related_type |-> "PAYMENT_INTENT", related_id |-> payment_intent.id,
   claim_id |-> payment_intent.claim_id, status |-> "POSTED",
   idempotency_key |-> EntryKey(payment_intent, "settle", side)]

\* The settlement pair of the intent.
SettlePair(payment_intent) ==
  {SettleEntry(payment_intent, ClearingAccount, "DEBIT", "debit"),
   SettleEntry(payment_intent, Account("PRACTICE_PAYABLE", payment_intent.practice_id),
               "CREDIT", "credit")}

\* The orchestrator's confirm_payment on the intent, from the current tables.
ConfirmOf(payment_intent) == confirm_payment(CurrentPDb, payment_intent)

\* C22: the orchestrator's confirm_payment on a SENT intent posts the settlement pair
\* (the pair is new, and apart from it the only change in the journal is that the
\* intent's PENDING entries are POSTED), sets the intent to CONFIRMED with the
\* confirmation timestamp and moves an APPROVED claim to PAID, any other claim status
\* being kept; on a CONFIRMED intent it returns with nothing changed; on a QUEUED or
\* FAILED intent it raises PaymentError with nothing changed.
C22_ConfirmPayment ==
  \A i \in payment_intents :
    \A r \in {ConfirmOf(i)} :
      /\ i.status = "SENT" =>
           /\ r.outcome = "ok" /\ r.ret = i.id
           /\ SettlePair(i) \cap ledger_entries = {}
           /\ r.db.entries = FlipPending(CurrentPDb, i, "POSTED").entries \cup SettlePair(i)
           /\ r.db.intents = (payment_intents \ {i})
                               \cup {[i EXCEPT !.status = "CONFIRMED", !.confirmed_at = "utcnow"]}
           /\ r.db.claims = [claims_v2 EXCEPT ![i.claim_id].status =
                                                IF @ = "APPROVED" THEN "PAID" ELSE @]
           /\ claims_v2[i.claim_id].status = "APPROVED" => r.db.claims[i.claim_id].status = "PAID"
      /\ i.status = "CONFIRMED" => r.outcome = "ok" /\ r.ret = i.id /\ r.db = CurrentPDb
      /\ i.status \in {"QUEUED", "FAILED"} => r.outcome = "PaymentError" /\ r.db = CurrentPDb

\* confirm_payment has just confirmed a SENT intent and its claim is PAID, while another
\* intent is FAILED.
C22_Witness ==
  /\ plast.op = "confirm" /\ plast.outcome = "ok"
  /\ \E i \in payment_intents :
       /\ i.id = plast.arg /\ i.status = "CONFIRMED" /\ i.confirmed_at = "utcnow"
       /\ claims_v2[i.claim_id].status = "PAID"
       /\ SettlePair(i) \subseteq ledger_entries
  /\ \E i \in payment_intents : i.status = "FAILED"

\* confirm_payment has just been refused on a QUEUED intent.
C22_WitnessRefused ==
  /\ plast.op = "confirm" /\ plast.outcome = "PaymentError"
  /\ \E i \in payment_intents : i.id = plast.arg /\ i.status = "QUEUED"

\* One entry of the intent's release pair, as release_reservation posts it.
ReleaseEntry(payment_intent, account, direction, side) ==
  [account |-> account, direction |-> direction, amount_cents |-> payment_intent.amount_cents,
   related_type |-> "PAYMENT_INTENT", related_id |-> payment_intent.id,
   claim_id |-> payment_intent.claim_id, status |-> "POSTED",
   idempotency_key |-> EntryKey(payment_intent, "release", side)]

\* The release pair of the intent.
ReleasePair(payment_intent) ==
  {ReleaseEntry(payment_intent, ClearingAccount, "DEBIT", "debit"),
   ReleaseEntry(payment_intent, CashAccount, "CREDIT", "credit")}

\* fail_payment on the intent with the code and the message, from the current tables.
FailOf(payment_intent, failure_code, failure_message) ==
  fail_payment(CurrentPDb, payment_intent, failure_code, failure_message)

\* C23: fail_payment on a QUEUED or SENT intent releases the reservation as the
\* ledger's release_reservation does (the intent's PENDING entries are REVERSED and the
\* release pair is posted), sets the intent to FAILED with the given code and message,
\* flags the claim with payment_exception and the code, and moves an APPROVED claim to
\* PAYMENT_EXCEPTION, any other claim status being kept; on a FAILED intent it returns
\* with nothing changed; on a CONFIRMED intent it raises PaymentError with nothing changed.
C23_FailPayment ==
  \A i \in payment_intents, f \in DrawnFailures, m \in GivenMessages :
    \A r \in {FailOf(i, f, m)} :
      /\ i.status \in {"QUEUED", "SENT"} =>
           /\ r.outcome = "ok" /\ r.ret = i.id
           /\ ReleasePair(i) \cap ledger_entries = {}
           /\ r.db.entries = FlipPending(CurrentPDb, i, "REVERSED").entries \cup ReleasePair(i)
           /\ \A e \in EntriesOfIntent(r.db, i.id) : e.status # "PENDING"
           /\ r.db.intents = (payment_intents \ {i})
                               \cup {[i EXCEPT !.status = "FAILED", !.failure_code = f,
                                               !.failure_message = m]}
           /\ r.db.claims = [claims_v2 EXCEPT ![i.claim_id] =
                               [@ EXCEPT !.payment_exception = TRUE, !.exception_code = f,
                                         !.status = IF @ = "APPROVED" THEN "PAYMENT_EXCEPTION"
                                                                      ELSE @]]
           /\ claims_v2[i.claim_id].status = "APPROVED" =>
                r.db.claims[i.claim_id].status = "PAYMENT_EXCEPTION"
      /\ i.status = "FAILED" => r.outcome = "ok" /\ r.ret = i.id /\ r.db = CurrentPDb
      /\ i.status = "CONFIRMED" => r.outcome = "PaymentError" /\ r.db = CurrentPDb

\* fail_payment has just failed an intent that was SENT: it carries the provider's
\* reference and the caller's message, and its claim is in PAYMENT_EXCEPTION.
C23_Witness ==
  /\ plast.op = "fail" /\ plast.outcome = "ok"
  /\ \E i \in payment_intents :
       /\ i.id = plast.arg /\ i.status = "FAILED" /\ i.sent_at = "utcnow"
       /\ i.failure_message \in GivenMessages
       /\ claims_v2[i.claim_id].status = "PAYMENT_EXCEPTION"
       /\ claims_v2[i.claim_id].payment_exception
       /\ ReleasePair(i) \subseteq ledger_entries

\* fail_payment has just been refused on a CONFIRMED intent.
C23_WitnessRefused ==
  /\ plast.op = "fail" /\ plast.outcome = "PaymentError"
  /\ \E i \in payment_intents : i.id = plast.arg /\ i.status = "CONFIRMED"

\* process_approved_claim on the claim, from the current tables, with the provider's draw.
ProcessOf(claim_id, draw) ==
  process_approved_claim(CurrentPDb, CurrentPDb, provider_payments, claim_id, draw)

\* What the provider answers for the claim's payment key: the cached result or the draw.
ProviderAnswer(claim_id, draw) ==
  provider_send_payment(provider_payments, generate_idempotency_key(claim_id), draw).result

\* C24: process_approved_claim (a) ends where create ends when create raises, with
\* nothing sent; (b) when create returns an existing intent that is not QUEUED, returns
\* it with no table and no provider record changed; (c) otherwise sends the QUEUED
\* intent, and on a provider SUCCESS goes on to confirm: the intent is CONFIRMED, sent
\* and confirmed timestamps set, the settlement pair posted, the claim PAID; on a
\* provider FAILED nothing is confirmed: the intent is FAILED, no settlement entry
\* exists, the claim is in PAYMENT_EXCEPTION; (d) success is true exactly when the
\* returned intent is CONFIRMED.
C24_ProcessApprovedClaim ==
  \A c \in PayClaimIds, d \in Draws :
    \A r \in {ProcessOf(c, d)} :
      LET created == create_payment_intent(CurrentPDb, CurrentPDb, c)
          intent == IntentById(created.db, created.ret)
          answer == ProviderAnswer(c, d)
          returned == IntentById(r.db, r.ret)
      IN /\ created.outcome # "ok" =>
              /\ r.outcome = created.outcome /\ r.db = created.db
              /\ r.prov = provider_payments /\ ~r.success
         /\ (created.outcome = "ok" /\ intent.status # "QUEUED") =>
              /\ r.outcome = "ok" /\ r.ret = intent.id /\ intent \in payment_intents
              /\ r.db = CurrentPDb /\ r.prov = provider_payments
              /\ r.success <=> intent.status = "CONFIRMED"
         /\ (created.outcome = "ok" /\ intent.status = "QUEUED") =>
              /\ r.outcome = "ok" /\ r.ret = intent.id
              /\ answer \in r.prov
              /\ answer.status = "SUCCESS" =>
                   /\ returned.status = "CONFIRMED" /\ r.success
                   /\ returned.sent_at = "utcnow" /\ returned.confirmed_at = "utcnow"
                   /\ SettlePair(intent) \subseteq r.db.entries
                   /\ r.db.claims[c].status = "PAID"
              /\ answer.status = "FAILED" =>
                   /\ returned.status = "FAILED" /\ ~r.success
                   /\ returned.sent_at = "utcnow" /\ returned.confirmed_at = "None"
                   /\ \A e \in EntriesOfIntent(r.db, intent.id) :
                        e.idempotency_key \notin {EntryKey(intent, "settle", "debit"),
                                                  EntryKey(intent, "settle", "credit")}
                   /\ r.db.claims[c].status = "PAYMENT_EXCEPTION"
         /\ r.outcome = "ok" => (r.success <=> returned.status = "CONFIRMED")

\* process has just paid one claim (intent CONFIRMED, claim PAID) after it had failed
\* for the other (intent FAILED, claim in PAYMENT_EXCEPTION).
C24_Witness ==
  /\ plast.op = "process" /\ plast.outcome = "ok" /\ ~plast.existed
  /\ \E i \in payment_intents :
       /\ i.id = plast.ret /\ i.status = "CONFIRMED" /\ claims_v2[i.claim_id].status = "PAID"
  /\ \E i \in payment_intents :
       /\ i.status = "FAILED" /\ i.sent_at = "utcnow"
       /\ claims_v2[i.claim_id].status = "PAYMENT_EXCEPTION"

\* process has just returned the claim's existing intent, which is SENT, as it was.
C24_WitnessExisting ==
  /\ plast.op = "process" /\ plast.outcome = "ok" /\ plast.existed
  /\ \E i \in payment_intents : i.id = plast.ret /\ i.status = "SENT"

\* The operations of the payment endpoints that write intents.
IntentOps == {"create", "send", "confirm", "fail", "process", "retry", "cancel", "resolve"}

\* The intent moved from status `from` to status `to` by one assignment of the table,
\* or not at all.
TableMove(from, to) == to = from \/ to \in PAYMENT_INTENT_TRANSITIONS[from]

\* The status the call leaves the intent with.
StatusAfter(r, payment_intent) == IntentById(r.db, payment_intent.id).status

\* C25: send_payment, confirm_payment, fail_payment and the failure handler, called on
\* any intent, leave it in its status or move it along PAYMENT_INTENT_TRANSITIONS
\* (QUEUED to SENT or FAILED, SENT to CONFIRMED or FAILED), the handler being called on
\* QUEUED and SENT intents only; and in every step of the payment endpoints an intent
\* that is in the table before and after the step keeps its status or moves along the
\* table, in one move or, in process, in the two moves of send and confirm; a
\* CONFIRMED or FAILED intent keeps its status.
C25_IntentTransitions ==
  /\ [](\A i \in payment_intents :
          /\ \A d \in Draws : TableMove(i.status, StatusAfter(SendOf(i, d), i))
          /\ TableMove(i.status, StatusAfter(ConfirmOf(i), i))
          /\ \A f \in DrawnFailures, m \in GivenMessages :
                /\ TableMove(i.status, StatusAfter(FailOf(i, f, m), i))
                /\ i.status \in {"QUEUED", "SENT"} =>
                     TableMove(i.status,
                               IntentById(_handle_payment_failure(CurrentPDb, i, f, m), i.id).status))
  /\ [][\A i \in payment_intents : \A j \in payment_intents' :
          (j.id = i.id /\ j.status # i.status) =>
             /\ plast'.op \in IntentOps
             /\ i.status \notin TERMINAL_PAYMENT_STATUSES
             /\ \/ j.status \in PAYMENT_INTENT_TRANSITIONS[i.status]
                \/ /\ plast'.op = "process"
                   /\ i.status = "QUEUED" /\ j.status = "CONFIRMED"
                   /\ "SENT" \in PAYMENT_INTENT_TRANSITIONS[i.status]
                   /\ j.status \in PAYMENT_INTENT_TRANSITIONS["SENT"]]_vars

\* Each of the four transitions of the table has been taken: one intent went from
\* QUEUED over SENT to CONFIRMED, another from QUEUED to FAILED without being sent or
\* from SENT to FAILED, and the last call, a confirm of the FAILED one, was refused.
C25_Witness ==
  /\ plast.op = "confirm" /\ plast.outcome = "PaymentError"
  /\ \E i \in payment_intents :
       i.id = plast.arg /\ i.status = "FAILED" /\ i.failure_message \in GivenMessages
  /\ \E i \in payment_intents :
       i.status = "CONFIRMED" /\ i.sent_at = "utcnow" /\ i.confirmed_at = "utcnow"

\* The pairs <<current, target>> of the claim status table, written out.
LegalPairs ==
  {<<"NEW", "NEEDS_REVIEW">>, <<"NEW", "APPROVED">>, <<"NEW", "DECLINED">>,
   <<"NEEDS_REVIEW", "APPROVED">>, <<"NEEDS_REVIEW", "DECLINED">>,
   <<"APPROVED", "PAID">>, <<"APPROVED", "DECLINED">>, <<"APPROVED", "PAYMENT_EXCEPTION">>,
   <<"PAID", "COLLECTING">>, <<"COLLECTING", "CLOSED">>,
   <<"PAYMENT_EXCEPTION", "APPROVED">>, <<"PAYMENT_EXCEPTION", "DECLINED">>}

\* C26: validate_status_transition(current, target) does not raise exactly on the
\* twelve legal pairs; on every other pair of statuses it raises
\* InvalidStatusTransitionError carrying current and target; can_transition is true
\* exactly on the pairs on which validate_status_transition does not raise; and what
\* the calls made returned, and what the transition endpoint did with the claim, agree
\* with that.
C26_ValidateTransition ==
  /\ \A s \in ClaimStatusV2, t \in ClaimStatusV2 :
        \A raised \in {validate_status_transition_v2(s, t)} :
          /\ raised = NotRaised <=> <<s, t>> \in LegalPairs
          /\ raised # NotRaised =>
               /\ raised.kind = "InvalidStatusTransitionError"
               /\ raised.current_status = s /\ raised.target_status = t
               /\ raised.message \in {"already", "complete", "cannot"}
          /\ (s = t \/ s \in {"CLOSED", "DECLINED"}) => raised # NotRaised
          /\ can_transition_v2(s, t) <=> raised = NotRaised
  /\ plast.op = "validate" =>
        /\ plast.outcome = "ok" <=> plast.arg \in LegalPairs
        /\ plast.outcome # "ok" =>
             /\ plast.outcome = "InvalidStatusTransitionError"
             /\ <<plast.ret.current_status, plast.ret.target_status>> = plast.arg
  /\ plast.op = "can_transition" => (plast.ret <=> plast.arg \in LegalPairs)
  /\ plast.op = "transition" =>
        /\ plast.http = 200 <=> plast.arg \in LegalPairs
        /\ plast.http # 200 => plast.http = 400

\* validate_status_transition has just raised for PAYMENT_EXCEPTION -> PAID, with both
\* statuses in the exception, while a claim moved by the transition endpoint is CLOSED.
C26_Witness ==
  /\ plast.op = "validate" /\ plast.outcome = "InvalidStatusTransitionError"
  /\ plast.arg = <<"PAYMENT_EXCEPTION", "PAID">>
  /\ plast.ret.current_status = "PAYMENT_EXCEPTION" /\ plast.ret.target_status = "PAID"
  /\ \E c \in PayClaimIds : claims_v2[c].status = "CLOSED"

\* validate_status_transition has just let NEW -> APPROVED through.
C26_WitnessLegal ==
  /\ plast.op = "validate" /\ plast.outcome = "ok" /\ plast.arg = <<"NEW", "APPROVED">>

\* The table has an entry for every status of its enum and for nothing else, every
\* entry is a set of statuses of the enum, and the statuses with no successor are the
\* terminal ones.
TableComplete(table, statuses, terminal) ==
  /\ DOMAIN table = statuses
  /\ \A s \in statuses : table[s] \subseteq statuses
  /\ {s \in statuses : table[s] = {}} = terminal

\* C27: in the NEW..CLOSED table and in the older submitted..settled table every
\* defined status has an entry; get_valid_transitions returns, for every status, the
\* set of the table's entry (never the default of a missing key); and the statuses
\* whose set is empty are exactly the terminal statuses (CLOSED and DECLINED; settled,
\* reimbursed and exception); and every call of get_valid_transitions made returned a
\* set of statuses, the empty one exactly for a terminal status.
C27_TablesComplete ==
  /\ TableComplete(CLAIM_STATUS_TRANSITIONS_V2, ClaimStatusV2, TERMINAL_STATUSES_V2)
  /\ TableComplete(CLAIM_STATUS_TRANSITIONS, ClaimStatus, TERMINAL_STATUSES)
  /\ TERMINAL_STATUSES_V2 = {"CLOSED", "DECLINED"}
  /\ TERMINAL_STATUSES = {"settled", "reimbursed", "exception"}
  /\ \A s \in ClaimStatusV2 :
        /\ s \in DOMAIN CLAIM_STATUS_TRANSITIONS_V2
        /\ get_valid_transitions_v2(s) = CLAIM_STATUS_TRANSITIONS_V2[s]
        /\ get_valid_transitions_v2(s) = {t \in ClaimStatusV2 : <<s, t>> \in LegalPairs}
  /\ \A s \in ClaimStatus :
        /\ s \in DOMAIN CLAIM_STATUS_TRANSITIONS
        /\ get_valid_transitions(s) = CLAIM_STATUS_TRANSITIONS[s]
  /\ plast.op \in {"get_valid_transitions", "transitions"} =>
        /\ plast.ret \subseteq ClaimStatus \cup ClaimStatusV2
        /\ plast.ret = {} <=> plast.arg[1] \in TERMINAL_STATUSES \cup TERMINAL_STATUSES_V2

\* GET /claims/{id}/transitions has just returned the empty set for a claim that the
\* transition endpoint moved to DECLINED, the other claim being in COLLECTING.
C27_Witness ==
  /\ plast.op = "transitions" /\ plast.ret = {} /\ plast.arg = <<"DECLINED">>
  /\ \E c \in PayClaimIds : claims_v2[c].status = "COLLECTING"

\* get_valid_transitions of the older table has just returned the three successors of funded.
C27_WitnessOlder ==
  /\ plast.op = "get_valid_transitions" /\ plast.arg = <<"funded">>
  /\ plast.ret = {"reimbursed", "exception", "settled"}

\* C28: in every state reached by fund and settle calls (made directly, through the
\* endpoints and by the simulation) on claims created with funded_amount 0, a claim that
\* is submitted or underwriting has funded_amount = 0 and a claim that is funded has
\* funded_amount > 0.
C28_FundedAmountByStatus ==
  \A c \in ClaimIds :
    /\ claims[c].status \in {"submitted", "underwriting"} => claims[c].funded_amount = 0
    /\ claims[c].status = "funded" => claims[c].funded_amount > 0

\* fund_claim_atomic has just funded a claim, while another claim is still underwriting
\* and a third submitted.
C28_Witness ==
  /\ last.op = "fund" /\ last.outcome = "ok"
  /\ claims[last.cid].status = "funded" /\ claims[last.cid].funded_amount > 0
  /\ \E c \in ClaimIds : claims[c].status = "underwriting" /\ claims[c].funded_amount = 0
  /\ \E c \in ClaimIds : claims[c].status = "submitted" /\ claims[c].funded_amount = 0

\* The reference decision procedure: the eight rules in order, each decided over the
\* whole claim before the next, the first violated one giving the reason code.
ReferenceDecision(in) ==
  LET payer == strip(in.claim.payer)
      codes == {strip(in.claim.procedure_code[i]) : i \in 1..Len(in.claim.procedure_code)}
      rates == in.policy.procedure_historical_pay_rate
  IN IF payer \notin in.policy.approved_payers THEN Declined("PAYER_NOT_APPROVED")
     ELSE IF \E kw \in in.policy.excluded_plan_keywords : contains(lower(payer), lower(kw))
       THEN Declined("PAYER_PLAN_NOT_SUPPORTED")
     ELSE IF \E c \in codes : c \notin in.policy.allowed_procedures
       THEN Declined("PROCEDURE_NOT_ALLOWED")
     ELSE IF \E c \in codes : c \notin DOMAIN rates \/ rates[c] < in.policy.procedure_pay_rate_threshold
       THEN Declined("PROCEDURE_PAY_RATE_BELOW_THRESHOLD")
     ELSE IF in.practice.tenure_months < in.policy.min_practice_tenure_months
       THEN Declined("PRACTICE_TENURE_TOO_LOW")
     ELSE IF in.practice.historical_clean_claim_rate < in.policy.min_practice_clean_claim_rate
       THEN Declined("PRACTICE_CLEAN_CLAIM_HISTORY_TOO_LOW")
     ELSE IF in.claim.expected_allowed_amount > in.remaining_practice_exposure_limit
       THEN Declined("EXCEEDS_PRACTICE_EXPOSURE_LIMIT")
     ELSE IF in.claim.expected_allowed_amount > in.pool_available_capital
       THEN Declined("INSUFFICIENT_POOL_LIQUIDITY")
     ELSE [approved |-> TRUE, funded_amount |-> in.claim.expected_allowed_amount,
           reason_code |-> "None"]

\* C29 (as claimed): every call of underwrite_claim returned the decision of the
\* reference procedure: the reason code of the first violated rule in the order payer,
\* excluded keyword, every procedure allowed, every pay rate known and at threshold,
\* tenure, clean-claim rate (PRACTICE_CLEAN_CLAIM_HISTORY_TOO_LOW), exposure, liquidity,
\* or approval with funded_amount = expected_allowed_amount when all eight pass.
C29_EqualsReference ==
  last.op = "underwrite_claim" => last.decision = ReferenceDecision(last.input)

\* C29 (what the code does): underwrite_claim agrees with the reference procedure on
\* whether it approves, and on the reason code except in two cases: a low clean-claim
\* rate is reported as PRACTICE_HISTORY_INSUFFICIENT, and a claim with a disallowed
\* procedure code is reported as PROCEDURE_PAY_RATE_BELOW_THRESHOLD when a code before
\* it in the claim has an unknown or low pay rate.
C29_SameApprovalOtherCodes ==
  \A in \in UwInputs :
    LET decision == UnderwriteOf(in)
        reference == ReferenceDecision(in)
    IN /\ decision.approved = reference.approved
       /\ decision.funded_amount = reference.funded_amount
       /\ decision.reason_code # reference.reason_code =>
            \/ /\ reference.reason_code = "PRACTICE_CLEAN_CLAIM_HISTORY_TOO_LOW"
               /\ decision.reason_code = "PRACTICE_HISTORY_INSUFFICIENT"
            \/ /\ reference.reason_code = "PROCEDURE_NOT_ALLOWED"
               /\ decision.reason_code = "PROCEDURE_PAY_RATE_BELOW_THRESHOLD"
               /\ Len(in.claim.procedure_code) > 1

\* underwrite_claim has just declined a claim with the codes D2750;X9999 for the pay
\* rate of D2750, though X9999 is not an allowed procedure.
C29_RuleFourBeforeThree ==
  /\ last.op = "underwrite_claim"
  /\ last.input.claim.procedure_code = <<"D2750", "X9999">>
  /\ last.decision.reason_code = "PROCEDURE_PAY_RATE_BELOW_THRESHOLD"
  /\ ReferenceDecision(last.input).reason_code = "PROCEDURE_NOT_ALLOWED"

\* underwrite_claim has just declined for the clean-claim rate, with the code
\* PRACTICE_HISTORY_INSUFFICIENT.
C29_OtherReasonCode ==
  /\ last.op = "underwrite_claim"
  /\ last.decision.reason_code = "PRACTICE_HISTORY_INSUFFICIENT"
  /\ ReferenceDecision(last.input).reason_code = "PRACTICE_CLEAN_CLAIM_HISTORY_TOO_LOW"

\* The entry `after` is the entry `before` with nothing changed but, at most, a status
\* that went from PENDING to POSTED or to REVERSED.
SameEntry(before, after) ==
  /\ after.idempotency_key = before.idempotency_key
  /\ after.account = before.account
  /\ after.direction = before.direction
  /\ after.amount_cents = before.amount_cents
  /\ after.related_type = before.related_type /\ after.related_id = before.related_id
  /\ after.claim_id = before.claim_id
  /\ \/ after.status = before.status
     \/ before.status = "PENDING" /\ after.status \in {"POSTED", "REVERSED"}

\* C30: the journal is append-only. In every state no two entries carry the same
\* idempotency key, and in every step of the payment operations (create with
\* reserve_funds, confirm, fail and send with release_reservation, process, retry,
\* cancel, resolve, seeding) every entry of the journal is still there afterwards with
\* the same key, account, direction, amount and related row, its status unchanged or
\* moved from PENDING to POSTED or from PENDING to REVERSED.
C30_AppendOnly ==
  /\ [](\A e1 \in ledger_entries, e2 \in ledger_entries :
          e1.idempotency_key = e2.idempotency_key => e1 = e2)
  /\ [][\A e \in ledger_entries :
          \E after \in ledger_entries' : SameEntry(e, after)]_vars

\* A retry has just paid a claim: the journal holds the REVERSED reserve entries and the
\* release entries of the intent the retry deleted, next to the POSTED entries of the
\* new intent.
C30_Witness ==
  /\ plast.op = "retry" /\ plast.outcome = "ok"
  /\ \E old \in ledger_entries :
       /\ old.related_type = "PAYMENT_INTENT" /\ old.status = "REVERSED"
       /\ \A i \in payment_intents : i.id # old.related_id
       /\ \E new \in ledger_entries :
            /\ new.claim_id = old.claim_id /\ new.related_id = plast.ret
            /\ new.related_id # old.related_id /\ new.status = "POSTED"
            /\ new.idempotency_key = <<"payment", plast.ret, "reserve", "debit">>

\* ---------------------------------------------------------------- C31
\* The funded_amount of the funded claims among the claims S.
RECURSIVE SumFunded(_)
SumFunded(S) ==
  IF S = {} THEN 0
  ELSE LET c == CHOOSE x \in S : TRUE
       IN (IF claims[c].status = "funded" THEN claims[c].funded_amount ELSE 0)
          + SumFunded(S \ {c})

ClaimsOfPractice(practice_id) == {c \in ClaimIds : claims[c].practice_id = practice_id}

SumAllocated == pools["POOL"].capital_allocated + pools["POOL2"].capital_allocated

\* C31: fund_claim_atomic calls that interleave leave what some serial order of them
\* leaves. Every serial order of fund calls from the zeroed tables keeps the pools'
\* allocated capital equal to the funded amounts of the funded claims and each
\* practice's current_exposure equal to the funded amounts of its funded claims (no
\* update lost), keeps the pool invariant, and keeps the exposure within the limit.
C31_SerialEffect ==
  /\ SumAllocated = SumFunded(ClaimIds)
  /\ \A pr \in PracticeIds :
        /\ practices[pr].current_exposure = SumFunded(ClaimsOfPractice(pr))
        /\ SumFunded(ClaimsOfPractice(pr)) <= practices[pr].max_exposure_limit
        /\ PracticeOk(practices[pr])
  /\ \A p \in PoolIds : PoolOk(pools[p])

\* C31: what the code keeps under interleaving: the pool invariant and the bound on
\* the recorded current_exposure, the counters being those of the last commit.
C31_RecordedCountersOk ==
  /\ \A p \in PoolIds : PoolOk(pools[p])
  /\ \A pr \in PracticeIds : PracticeOk(practices[pr])

\* C31: two claims of one practice funded from one pool by interleaved calls, the
\* counters holding one of the two amounts only.
C31_LostUpdate ==
  /\ claims["CLM1"].status = "funded"
  /\ claims["CLM2"].status = "funded"
  /\ SumAllocated < claims["CLM1"].funded_amount + claims["CLM2"].funded_amount
  /\ practices["PR1"].current_exposure
       < claims["CLM1"].funded_amount + claims["CLM2"].funded_amount

\* ---------------------------------------------------------------- C32
\* CAPITAL_CASH + PAYMENT_CLEARING + all PRACTICE_PAYABLE, as the ledger summary gives them.
SummaryTotal(s) ==
  s.capital_cash_cents + s.payment_clearing_cents + s.total_practice_payable_cents

LedgerTotal(db) == SummaryTotal(get_ledger_summary(db))

\* The capital seeded so far: the ADJUSTMENT credits of POST /ledger/seed.
TotalSeeded == SumSigned({e \in ledger_entries : e.related_type = "ADJUSTMENT"})

\* The three ledger operations applied to the committed tables for the intent.
LedgerOpsOn(payment_intent) ==
  {reserve_funds(CurrentPDb, payment_intent, payment_intent.amount_cents),
   ledger_confirm_payment(CurrentPDb, payment_intent),
   release_reservation(CurrentPDb, payment_intent)}

\* C32: the balances of all accounts (entries that are not REVERSED) add up to the
\* seeded capital in every state, and reserve_funds, confirm_payment and
\* release_reservation, called for any intent in any state, with the status flips they
\* make, leave that sum as it was.
C32_Conservation ==
  /\ LedgerTotal(CurrentPDb) = TotalSeeded
  /\ \A payment_intent \in payment_intents :
        \A r \in LedgerOpsOn(payment_intent) : LedgerTotal(r.db) = LedgerTotal(CurrentPDb)

\* C32: a reservation was reversed, another payment was settled to a payable account,
\* and the cash balance differs from the seeded capital.
C32_Witness ==
  /\ \E e \in ledger_entries : e.status = "REVERSED"
  /\ \E e \in ledger_entries : e.account.account_type = "PRACTICE_PAYABLE" /\ e.status = "POSTED"
  /\ get_ledger_summary(CurrentPDb).capital_cash_cents # TotalSeeded
  /\ get_ledger_summary(CurrentPDb).total_practice_payable_cents > 0
  /\ TotalSeeded > 0

\* ---------------------------------------------------------------- C33
\* The POSTED credits to PRACTICE_PAYABLE accounts tagged with the claim.
PayableCreditsOfClaim(claim_id) ==
  SumSigned({e \in ledger_entries : /\ e.claim_id = claim_id
                                    /\ e.account.account_type = "PRACTICE_PAYABLE"
                                    /\ e.direction = "CREDIT"
                                    /\ e.status = "POSTED"})

\* What the entries tagged with the claim add to the CAPITAL_CASH balance.
CashEffectOfClaim(claim_id) ==
  SumSigned({e \in ledger_entries : /\ e.claim_id = claim_id
                                    /\ e.account = Account("CAPITAL_CASH", 0)
                                    /\ e.status # "REVERSED"})

\* C33: no claim is paid out twice. Whatever payments were processed, sent, confirmed,
\* failed and retried for a claim, the POSTED credits to PRACTICE_PAYABLE tagged with
\* the claim sum to at most the claim's amount, and the claim's entries lower the
\* CAPITAL_CASH balance by at most that amount.
C33_PaidAtMostOnce ==
  \A c \in PayClaimIds :
     /\ PayableCreditsOfClaim(c) <= claims_v2[c].amount_cents
     /\ CashEffectOfClaim(c) >= 0 - claims_v2[c].amount_cents

\* C33: a claim whose first payment failed was paid by a later attempt.
C33_Witness ==
  \E c \in PayClaimIds :
     /\ claims_v2[c].status = "PAID"
     /\ PayableCreditsOfClaim(c) = claims_v2[c].amount_cents
     /\ \E e \in ledger_entries : e.claim_id = c /\ e.status = "REVERSED"
     /\ \E i \in payment_intents : i.claim_id = c /\ i.status = "CONFIRMED"

\* ---------------------------------------------------------------- C34
\* C34: whatever create_payment_intent calls for distinct claims run at the same time,
\* the CAPITAL_CASH balance (the entries that are not REVERSED) is never negative.
C34_CashNeverNegative ==
  compute_balance(CurrentPDb, Account("CAPITAL_CASH", 0), "None") >= 0

\* C34: two creations for distinct claims have both committed their reservations, each
\* having passed the balance check, and the reservations exceed the cash there was.
C34_Overdrawn ==
  /\ \A p \in Procs : sessions[p].pc = "done" /\ sessions[p].via = "created"
  /\ sessions["A"].claim_id # sessions["B"].claim_id
  /\ compute_balance(CurrentPDb, Account("CAPITAL_CASH", 0), "None") < 0

\* ---------------------------------------------------------------- C35
\* C35: the claim of every CONFIRMED payment intent is PAID, COLLECTING or CLOSED, also
\* when the transition endpoint moved the claim between send_payment and
\* confirm_payment.
C35_ConfirmedMeansPaid ==
  \A i \in payment_intents :
     i.status = "CONFIRMED" => claims_v2[i.claim_id].status \in {"PAID", "COLLECTING", "CLOSED"}

\* C35: a payment was confirmed, and its settlement posted, for a claim that is DECLINED.
C35_ConfirmedForDeclined ==
  \E i \in payment_intents :
     /\ i.status = "CONFIRMED"
     /\ claims_v2[i.claim_id].status = "DECLINED"
     /\ PayableCreditsOfClaim(i.claim_id) = i.amount_cents

\* ---------------------------------------------------------------- C36
\* The entries tagged to the intent that are still PENDING.
PendingOfIntent(payment_intent) ==
  {e \in EntriesOfIntent(CurrentPDb, payment_intent.id) : e.status = "PENDING"}

\* C36: once a payment intent is CONFIRMED or FAILED, by whichever operation, no ledger
\* entry tagged to it is PENDING.
C36_NoPendingAfterEnd ==
  \A i \in payment_intents : i.status \in {"CONFIRMED", "FAILED"} => PendingOfIntent(i) = {}

\* C36: what the orchestrator's own operations keep: an intent that is CONFIRMED, or
\* FAILED with a failure code other than the cancel endpoint's, has no PENDING entry.
C36_NoPendingUnlessCancelled ==
  \A i \in payment_intents :
     /\ i.status \in {"CONFIRMED", "FAILED"}
     /\ i.failure_code # "CANCELLED"
     => PendingOfIntent(i) = {}

\* C36: a QUEUED intent was cancelled: it is FAILED, and its reservation is still
\* PENDING against CAPITAL_CASH.
C36_CancelledKeepsReservation ==
  /\ plast.op = "cancel"
  /\ plast.outcome = "ok"
  /\ \E i \in payment_intents :
        /\ i.id = plast.arg
        /\ i.status = "FAILED"
        /\ \E e \in PendingOfIntent(i) : e.account = Account("CAPITAL_CASH", 0) /\ e.direction = "DEBIT"

\* ---------------------------------------------------------------- C37
SumPending == pools["POOL"].capital_pending_settlement + pools["POOL2"].capital_pending_settlement

\* C37: in every state reached by fund and settle calls from zeroed pools and
\* practices, each practice's current_exposure is the sum of funded_amount over its
\* claims in status funded, the capital pending settlement is that sum over all funded
\* claims (a claim does not record the pool that funded it: the pools taken together),
\* and in each pool capital_allocated equals capital_pending_settlement.
C37_CountersAreSums ==
  /\ \A pr \in PracticeIds : practices[pr].current_exposure = SumFunded(ClaimsOfPractice(pr))
  /\ SumPending = SumFunded(ClaimIds)
  /\ \A p \in PoolIds : pools[p].capital_allocated = pools[p].capital_pending_settlement

\* C37: two claims of one practice are funded with different amounts, and a settle call
\* was made on one of them.
C37_Witness ==
  /\ claims["CLM1"].status = "funded"
  /\ claims["CLM2"].status = "funded"
  /\ claims["CLM1"].funded_amount # claims["CLM2"].funded_amount
  /\ practices["PR1"].current_exposure = claims["CLM1"].funded_amount + claims["CLM2"].funded_amount
  /\ last.op = "settle"
  /\ last.cid = "CLM1"

\* ---------------------------------------------------------------- C38
\* The committed tables with the status of the claim's row set to `status`.
WithClaimStatus(claim_id, status) == [CurrentDb EXCEPT !.claims[claim_id].status = status]

\* settle_claim_atomic in a session_scope on the tables db ends with LedgerError and
\* leaves every row as it was, for any pool, day and amount.
SettleRefused(db, claim_id) ==
  \A p \in PoolIds, d \in Days, a \in 0..MaxAmount :
     \E r \in {settle_claim_atomic(db, p, claim_id, d, a)} :
        /\ r.outcome = "LedgerError"
        /\ session_scope(db, r) = db

\* The claims that were funded and are funded no longer.
SettledClaims ==
  {c \in ClaimIds : claims[c].status \in TERMINAL_STATUSES /\ claims[c].funded_amount > 0}

\* C38: a claim is settled at most once. settle_claim_atomic on a claim that is
\* reimbursed, exception or settled ends with LedgerError and changes no counter: on
\* every claim in such a status as it is, and on every claim's row were it in any of the
\* three; and num_settled_claims counts no more than the claims that left funded.
C38_SettledAtMostOnce ==
  /\ \A c \in ClaimIds : claims[c].status \in TERMINAL_STATUSES => SettleRefused(CurrentDb, c)
  /\ \A c \in ClaimIds, s \in TERMINAL_STATUSES : SettleRefused(WithClaimStatus(c, s), c)
  /\ pools["POOL"].num_settled_claims + pools["POOL2"].num_settled_claims
       <= Cardinality(SettledClaims)

\* C38: settle was called on a claim in status exception and refused, while another
\* claim is funded and the counters hold its amount.
C38_Witness ==
  /\ last.op = "settle"
  /\ last.outcome = "LedgerError"
  /\ claims[last.cid].status = "exception"
  /\ \E c \in ClaimIds : claims[c].status = "funded"
  /\ pools["POOL"].capital_pending_settlement > 0

\* ---------------------------------------------------------------- C39
\* The committed tables with the claim's expected_allowed_amount being e, as POST /claims
\* stores whatever amount it is given.
WithExpectedAmount(claim_id, e) ==
  [CurrentDb EXCEPT !.claims[claim_id].expected_allowed_amount = e]

\* The decision on the claim as the fund endpoint asks for it.
DecisionOn(db, claim_id, pool_id) ==
  underwrite_claim(db.claims[claim_id], db.practices[db.claims[claim_id].practice_id],
                   default_policy,
                   Max(0, db.practices[db.claims[claim_id].practice_id].max_exposure_limit
                            - db.practices[db.claims[claim_id].practice_id].current_exposure),
                   db.pools[pool_id].available_capital)

\* On the tables db: when the claim is in underwriting and underwrite_claim approves it,
\* fund_claim_atomic with the decision's funded_amount returns.
FundFollowsApproval(db, claim_id, pool_id) ==
  \E decision \in {DecisionOn(db, claim_id, pool_id)} :
     db.claims[claim_id].status = "underwriting" /\ decision.approved
       => fund_claim_atomic(db, pool_id, claim_id, decision.funded_amount).outcome = "ok"

\* C39: underwriting and funding agree for every expected_allowed_amount >= 0: a claim
\* in underwriting that underwrite_claim approves on the current exposure and capital
\* is funded by fund_claim_atomic with decision.funded_amount, without LedgerError and
\* without a failed assertion.
C39_FundFollowsApproval ==
  \A c \in ClaimIds, p \in PoolIds, e \in 0..MaxAmount :
     FundFollowsApproval(WithExpectedAmount(c, e), c, p)

\* C39: the same for every expected_allowed_amount > 0.
C39_FundFollowsPositiveApproval ==
  \A c \in ClaimIds, p \in PoolIds, e \in 1..MaxAmount :
     FundFollowsApproval(WithExpectedAmount(c, e), c, p)

\* C39: the fund endpoint was called on a claim in underwriting whose
\* expected_allowed_amount is 0: the decision approved it with funded_amount 0, and
\* fund_claim_atomic ended on its first assertion.
C39_ZeroApprovedNotFunded ==
  /\ last.op = "fund_endpoint"
  /\ last.outcome = "AssertionError"
  /\ claims[last.cid].status = "underwriting"
  /\ claims[last.cid].expected_allowed_amount = 0
  /\ \E p \in PoolIds : DecisionOn(CurrentDb, last.cid, p).approved

\* ---------------------------------------------------------------- C40
\* The tables each operation on the payment intent leaves in its session, applied to
\* the committed tables: send, confirm, fail, retry, cancel, resolve.
AfterOpsOnIntent(i) ==
  {confirm_payment(CurrentPDb, i).db, cancel_payment(CurrentPDb, i.id).db,
   resolve_payment(CurrentPDb, i.id).db}
    \cup {fail_payment(CurrentPDb, i, f, m).db : f \in DrawnFailures, m \in GivenMessages}
    \cup {send_payment(CurrentPDb, provider_payments, i, d).db : d \in Draws}
    \cup {retry_payment(CurrentPDb, provider_payments, i.id, d).db : d \in Draws}

\* The same for the operations on a claim: create and process.
AfterOpsOnClaim(c) ==
  {create_payment_intent(CurrentPDb, CurrentPDb, c).db}
    \cup {process_approved_claim(CurrentPDb, CurrentPDb, provider_payments, c, d).db : d \in Draws}

\* The status stays, or moves along the claim status table; CLOSED and DECLINED stay.
LegalClaimMove(from, to) ==
  \/ to = from
  \/ from \notin TERMINAL_STATUSES_V2 /\ to \in CLAIM_STATUS_TRANSITIONS_V2[from]

\* C40: whatever status the claims are in, every operation of the payment orchestrator
\* and of the payment endpoints leaves each claim's status as it is or moves it along a
\* transition of the claim status table, and leaves a CLOSED or DECLINED claim as it is.
C40_LegalClaimMoves ==
  /\ \A i \in payment_intents : \A db \in AfterOpsOnIntent(i) :
        \A c \in PayClaimIds : LegalClaimMove(claims_v2[c].status, db.claims[c].status)
  /\ \A k \in PayClaimIds : \A db \in AfterOpsOnClaim(k) :
        \A c \in PayClaimIds : LegalClaimMove(claims_v2[c].status, db.claims[c].status)

\* C40: fail_payment acted on the intent of a claim that the transition endpoint had
\* declined: the intent is FAILED and the claim is still DECLINED.
C40_Witness ==
  /\ plast.op = "fail"
  /\ plast.outcome = "ok"
  /\ \E i \in payment_intents :
        /\ i.id = plast.arg
        /\ i.status = "FAILED"
        /\ claims_v2[i.claim_id].status = "DECLINED"
        /\ claims_v2[i.claim_id].payment_exception

\* C40: the four moves are made: a claim is PAID by a confirmation while the other is
\* in PAYMENT_EXCEPTION by a failure.
C40_WitnessMoves ==
  /\ \E i \in payment_intents : i.status = "CONFIRMED" /\ claims_v2[i.claim_id].status = "PAID"
  /\ \E i \in payment_intents :
        i.status = "FAILED" /\ claims_v2[i.claim_id].status = "PAYMENT_EXCEPTION"

====
